---- MODULE Spec2Model ----
(***************************************************************************)
(* cabinet: an HTTP object store on an ordered key-value database with an  *)
(* event log and websocket replication (src/main.go, src/repl.go).         *)
(*                                                                         *)
(* A node is one cabinet process: its KV database, the HTTP handlers that  *)
(* mutate it (upload, store, delete), the event dispatcher, the            *)
(* replication sessions it serves and the replication client it runs when  *)
(* it has a parent.                                                        *)
(***************************************************************************)
EXTENDS Integers, Sequences, FiniteSets, TLC

(***************************************************************************)
(* Bounds of the model.                                                    *)
(***************************************************************************)
\* first clock reading; every reading of one run has the same digit count,
\* as the 19-digit UnixNano readings of a real run have
ClockStart == 10
\* single node: how far the clock advances, the parts of one multipart
\* upload, the mutating requests the node accepts
ClockSpan == 2
MaxParts == 2
NodeQuota == 2
\* parent and child: the mutating requests the parent accepts (each of one
\* part, the clock advancing at most once per request), the connection losses
ReplQuota == 2
ReplDrops == 1
\* messages the connection holds between Send and Receive
WireCap == 1
\* requests of a run of the HTTP interface alone
HttpQuota == 2
\* parent and child both taking requests: the requests to the child
GateQuota == 1
\* failures of the replication client in a run of its retry loop
BackoffTries == 8
\* characters of a drawer name
MaxName == 2

Nodes == {"A", "B", "C"}
None == "none"
\* session slots of a serving node (one handleWebsocket call each)
Slots == {"s1", "s2"}

NoKey == -1
Absent == "absent"
\* no event, no message, no downloaded file
NoEvent == [type |-> None, name |-> 0, id |-> NoKey]
NoMsg == <<>>
NoBody == [content |-> None, ct |-> None]

(***************************************************************************)
(* Event keys.  The key of an event is "event:" followed by                *)
(* strconv.FormatInt(nanos, 10); the database orders keys bytewise.  A key *)
(* is held as its clock reading and compared through its decimal digits.  *)
(***************************************************************************)
RECURSIVE FormatInt(_)
FormatInt(n) == IF n < 10 THEN <<n>> ELSE Append(FormatInt(n \div 10), n % 10)

\* bytes.Compare(a, b) < 0: at the first place where the two differ, a has
\* the smaller byte or has ended
BytesLess(a, b) ==
    \E x \in {a}, y \in {b} :
        \E i \in 1..Len(y) :
            /\ \A j \in 1..(i - 1) : j <= Len(x) /\ x[j] = y[j]
            /\ (i > Len(x) \/ x[i] < y[i])

\* bytewise order of the keys "event:<a>" and "event:<b>"
KeyLess(a, b) == BytesLess(FormatInt(a), FormatInt(b))
KeyLeq(a, b) == a = b \/ KeyLess(a, b)

(***************************************************************************)
(* The database.  file, meta and event are the three key ranges, latest is *)
(* the latest_event key.  A batch is a sequence of Put and Delete          *)
(* operations applied in order by one Write.                               *)
(***************************************************************************)
EmptyDB == [file |-> <<>>, meta |-> <<>>, event |-> <<>>, latest |-> NoKey]

Put(ns, k, v) == [op |-> "put", ns |-> ns, k |-> k, v |-> v]
Del(ns, k) == [op |-> "del", ns |-> ns, k |-> k, v |-> Absent]

Without(f, k) == [x \in DOMAIN f \ {k} |-> f[x]]
With(f, k, v) == [x \in DOMAIN f \cup {k} |-> IF x = k THEN v ELSE f[x]]

ApplyOp(db, o) ==
    IF o.ns = "latest" THEN [db EXCEPT !.latest = o.v]
    ELSE IF o.op = "put" THEN [db EXCEPT ![o.ns] = With(db[o.ns], o.k, o.v)]
    ELSE [db EXCEPT ![o.ns] = Without(db[o.ns], o.k)]

RECURSIVE Write(_, _)
Write(db, batch) ==
    IF batch = <<>> THEN db ELSE Write(ApplyOp(db, Head(batch)), Tail(batch))

Has(db, key) == key \in DOMAIN db.event

(***************************************************************************)
(* Records.                                                                *)
(***************************************************************************)
Event(type, name, id) == [type |-> type, name |-> name, id |-> id]
MetaData(ct, src) == [ct |-> ct, src |-> src]

\* data.Event_Type
Event_UPLOAD == 1
Event_DELETE == 2

\* proto.Marshal and proto.Unmarshal of a data.Event: the encoding carries
\* the number of the type, the name and the id
Marshal(e) ==
    << IF e.type = "UPLOAD" THEN Event_UPLOAD
       ELSE IF e.type = "DELETE" THEN Event_DELETE ELSE 0,
       e.name, e.id >>
Unmarshal(m) ==
    [type |-> IF m[1] = Event_UPLOAD THEN "UPLOAD"
              ELSE IF m[1] = Event_DELETE THEN "DELETE" ELSE "UNKNOWN",
     name |-> m[2], id |-> m[3]]

ContentTypes == {"ct", "cu"}
Contents == {"b", "c"}
Urls == {"u"}

VARIABLES
    now,       \* last reading of the wall clock
    nextName,  \* names handed out by gouuid.New so far
    nextReq,   \* HTTP requests started so far
    kv,        \* kv[n]: the database of node n
    reqs,      \* the mutating HTTP requests in progress
    known,     \* the names a client was told in a response, with what it sent
    disp,      \* disp[n]: the dispatchEvents goroutine of node n
    sess,      \* sess[n][s]: session slot s of serving node n
    wire,      \* wire[c]: messages on the connection to client c
    cli,       \* cli[c]: the replicator goroutine of node c
    topo,      \* the deployment: parent, forceparent and limits of the run
    left,      \* what the run may still do: requests per node, drops
    commits,   \* commits[n]: the event records node n committed, in order
    resp       \* the last response an HTTP handler wrote

vars == <<now, nextName, nextReq, kv, reqs, known, disp, sess, wire, cli,
          topo, left, commits, resp>>

(***************************************************************************)
(* Mode gating (main).  A node without a parent, or with -forceparent,     *)
(* serves /api/upload and /api/store; DELETE is refused in child mode.     *)
(***************************************************************************)
Mutable(n) == topo.parent[n] = None \/ topo.force[n]
\* a file handler constructed without its ChildMode flag
NeverChild(n) == FALSE
ChildMode(n) == topo.parent[n] # None /\ ~topo.force[n]

\* time.Now().UnixNano(): the clock does not run backwards, and two readings
\* may be equal
ReadClock(t) ==
    /\ t \in {now, now + 1}
    /\ t <= topo.clockMax
    /\ now' = t

\* what a session has still to send and what it has sent, kept in the runs
\* that ask for it
Owe(x, msgs) == IF "sessions" \in topo.log THEN x.owed \cup (msgs \ x.sent) ELSE x.owed
Sent(x, m) == IF "sessions" \in topo.log THEN x.sent \cup {m} ELSE x.sent

\* the record of a committed batch ("local": of an HTTP handler, "repl": of
\* the replication client), of an ignored duplicate ("dup") or of an event
\* the dispatcher took from the Events channel ("pub"), kept in the runs that
\* ask for it
Commit(n, evs, src) ==
    commits' = IF "commits" \in topo.log
               THEN [commits EXCEPT ![n] = @ \o [i \in 1..Len(evs) |-> [key |-> evs[i].id, src |-> src]]]
               ELSE commits

(***************************************************************************)
(* fileHandler.deliverFile: the answer to GET /<drawer>/<filename>, its    *)
(* status, body, Content-Type and Content-Location (None: no such header). *)
(***************************************************************************)
NotFound == [status |-> 404, body |-> None, ct |-> None, loc |-> None]

\* a handler that answered every file as application/octet-stream
DeliverFileUntyped(db, name) ==
    IF name \notin DOMAIN db.file THEN NotFound
    ELSE [status |-> 200, body |-> db.file[name],
          ct |-> "application/octet-stream", loc |-> None]

DeliverFile(db, name) ==
    IF name \notin DOMAIN db.file THEN NotFound
    ELSE IF name \notin DOMAIN db.meta
    THEN [status |-> 200, body |-> db.file[name],
          ct |-> "application/octet-stream", loc |-> None]
    ELSE [status |-> 200, body |-> db.file[name],
          ct |-> db.meta[name].ct, loc |-> db.meta[name].src]

\* the response a handler wrote (its status and the URLs of its body), kept
\* in the runs that ask for it
NoResp ==
    [node |-> None, id |-> 0, kind |-> None, status |-> 0, names |-> {}, drawer |-> <<>>]
Answer(n, id, kind, status, names) ==
    resp' = IF "http" \in topo.log
            THEN [node |-> n, id |-> id, kind |-> kind, status |-> status, names |-> names,
                  drawer |-> <<>>]
            ELSE resp

\* http.Error(w, ..., http.StatusNotAcceptable) for the drawer of the form
NotAcceptable(n, id, kind, drawer) ==
    resp' = IF "http" \in topo.log
            THEN [node |-> n, id |-> id, kind |-> kind, status |-> 406, names |-> {},
                  drawer |-> drawer]
            ELSE resp

(***************************************************************************)
(* basicauth.Authenticate.  An Authorization header is its scheme and the  *)
(* fields of the decoded payload split at the first colon; a request       *)
(* without the header has the empty scheme.                                *)
(***************************************************************************)
Username == "admin"
Password == "secret"

basicAuthEncode(u, p) == [scheme |-> "Basic", pair |-> <<u, p>>]
NoHeader == [scheme |-> "", pair |-> <<>>]

\* the headers a client may send
AuthHeaders ==
    { NoHeader,
      basicAuthEncode(Username, Password),
      basicAuthEncode(Username, "wrong"),
      basicAuthEncode("guest", Password),
      [scheme |-> "Basic", pair |-> <<"admin">>],
      [scheme |-> "Bearer", pair |-> <<Username, Password>>] }

authFunc(u, p) == u = Username /\ p = Password

\* a check that lets every request through
AcceptAll(h) == TRUE

Authenticate(h) ==
    /\ h.scheme = "Basic"
    /\ Len(h.pair) = 2
    /\ authFunc(h.pair[1], h.pair[2])

\* what a client knows of a file it created: what it sent, and whether it
\* has deleted it since
Sending(name, content, ct, src) ==
    [name |-> name, content |-> content, ct |-> ct, src |-> src]
Told(files) ==
    [f \in DOMAIN known \cup {files[i].name : i \in 1..Len(files)} |->
        IF \E i \in 1..Len(files) : files[i].name = f
        THEN LET i == CHOOSE i \in 1..Len(files) : files[i].name = f
             IN [content |-> files[i].content, ct |-> files[i].ct,
                 src |-> files[i].src, gone |-> FALSE]
        ELSE known[f]]

\* a mutating request without the instance's credentials on a node that
\* serves it: 401, and the handler returns
Unauthorized(n) ==
    /\ left.req[n] > 0
    /\ \E h \in AuthHeaders, kind \in {"upload", "store", "delete"} :
         /\ IF kind = "delete" THEN ~ChildMode(n) ELSE Mutable(n)
         /\ ~Authenticate(h)
         /\ Answer(n, nextReq, kind, 401, {})
    /\ left' = [left EXCEPT !.req[n] = @ - 1]
    /\ nextReq' = nextReq + 1
    /\ UNCHANGED <<now, nextName, kv, reqs, known, disp, sess, wire, cli, topo, commits>>

\* a mutating request to a node in child mode.  DELETE is answered 404 by
\* fileHandler.ServeHTTP; /api/upload and /api/store have no handler and fall
\* to the file handler, which answers the POST with 400 and finds no file
\* for the GET
Refused(n) ==
    /\ left.req[n] > 0
    /\ \E h \in AuthHeaders, kind \in {"upload", "store", "delete"} :
         /\ IF kind = "delete" THEN ChildMode(n) ELSE ~Mutable(n)
         /\ Answer(n, nextReq, kind,
                   IF kind = "upload" THEN 400 ELSE NotFound.status, {})
    /\ left' = [left EXCEPT !.req[n] = @ - 1]
    /\ nextReq' = nextReq + 1
    /\ UNCHANGED <<now, nextName, kv, reqs, known, disp, sess, wire, cli, topo, commits>>

(***************************************************************************)
(* Drawer names.  A name is the sequence of its characters.                *)
(***************************************************************************)
\* the characters the clients of a run use in drawer names
Runes == {"a", "d", "Z", "5", ":", "$", "_", " "}

\* the names of at most k characters
NamesUpTo(k) == UNION {[1..m -> Runes] : m \in 0..k}

\* the drawer of the runs that are not about names
OneDrawer == {<<"a">>}

\* the string literal of validDrawerName
Allowed ==
    << "a", "b", "c", "e", "f", "g", "h", "i", "j", "k", "l", "m", "n",
       "o", "p", "q", "r", "s", "t", "u", "v", "w", "x", "y", "z", "A",
       "B", "C", "D", "E", "F", "G", "H", "I", "J", "K", "L", "M", "N",
       "O", "P", "Q", "R", "S", "T", "U", "V", "W", "X", "Y", "Z", "0",
       "1", "2", "3", "4", "5", "6", "7", "8", "9", ".", ".", ":", ",",
       ";", "$", "-" >>

\* strings.ContainsRune(s, r)
ContainsRune(s, r) == \E i \in DOMAIN s : s[i] = r

validDrawerName(drawer) == \A i \in DOMAIN drawer : ContainsRune(Allowed, drawer[i])

\* drawerName == "" || !validDrawerName(drawerName)
BadName(drawer) == drawer = <<>> \/ ~validDrawerName(drawer)

\* upload or store with the instance's credentials and a drawer that fails
\* the check: 406, and the handler returns
BadDrawer(n) ==
    /\ Mutable(n)
    /\ left.req[n] > 0
    /\ \E h \in AuthHeaders, kind \in {"upload", "store"}, dr \in topo.drawers :
         /\ Authenticate(h)
         /\ BadName(dr)
         /\ NotAcceptable(n, nextReq, kind, dr)
    /\ left' = [left EXCEPT !.req[n] = @ - 1]
    /\ nextReq' = nextReq + 1
    /\ UNCHANGED <<now, nextName, kv, reqs, known, disp, sess, wire, cli, topo, commits>>

(***************************************************************************)
(* uploadFileHandler.upload                                                *)
(***************************************************************************)
\* the operations one part adds to the batch
UploadOps(name, content, ct, key) ==
    << Put("file", name, content),
       Put("meta", name, MetaData(ct, None)),
       Put("event", key, Marshal(Event("UPLOAD", name, key))),
       Put("latest", "latest_event", key) >>

\* one pass of the part loop: a new name, the part's operations and its event
UploadPart(n) ==
    /\ Mutable(n)
    /\ \E t \in {now, now + 1}, b \in topo.contents, ct \in topo.cts :
         /\ ReadClock(t)
         /\ \/ /\ left.req[n] > 0
               /\ left' = [left EXCEPT !.req[n] = @ - 1]
               /\ nextReq' = nextReq + 1
               /\ \E h \in AuthHeaders, dr \in topo.drawers :
                    /\ Authenticate(h)
                    /\ ~BadName(dr)
                    /\ reqs' = reqs \cup
                         {[id |-> nextReq, node |-> n, kind |-> "upload", phase |-> "parts",
                           auth |-> h, drawer |-> dr,
                           batch |-> UploadOps(nextName, b, ct, t),
                           files |-> <<Sending(nextName, b, ct, None)>>,
                           events |-> <<Event("UPLOAD", nextName, t)>>]}
            \/ /\ \E r \in reqs :
                    /\ r.node = n /\ r.kind = "upload" /\ r.phase = "parts"
                    /\ Len(r.events) < topo.maxParts
                    /\ reqs' = (reqs \ {r}) \cup
                         {[r EXCEPT !.batch = @ \o UploadOps(nextName, b, ct, t),
                                    !.files = Append(@, Sending(nextName, b, ct, None)),
                                    !.events = Append(@, Event("UPLOAD", nextName, t))]}
               /\ UNCHANGED <<left, nextReq>>
    /\ nextName' = nextName + 1
    /\ UNCHANGED <<kv, known, disp, sess, wire, cli, topo, commits, resp>>

\* the names of the files an upload or store request created
NamesOf(r) == {r.events[i].name : i \in 1..Len(r.events)}

\* DB.Write of the batch succeeded; the response with the URLs is written
UploadWrite(n) ==
    /\ \E r \in reqs :
         /\ r.node = n /\ r.kind = "upload" /\ r.phase = "parts"
         /\ kv' = [kv EXCEPT ![n] = Write(@, r.batch)]
         /\ Commit(n, r.events, "local")
         /\ known' = Told(r.files)
         /\ Answer(n, r.id, "upload", 200, NamesOf(r))
         /\ reqs' = (reqs \ {r}) \cup {[r EXCEPT !.phase = "publish"]}
    /\ UNCHANGED <<now, nextName, nextReq, disp, sess, wire, cli, topo, left>>

\* a handler that sent the events of a batch whose write failed
UploadWriteFailPublishes(n) ==
    /\ \E r \in reqs :
         /\ r.node = n /\ r.kind = "upload" /\ r.phase = "parts"
         /\ Answer(n, r.id, "upload", 500, {})
         /\ reqs' = (reqs \ {r}) \cup {[r EXCEPT !.phase = "publish"]}
    /\ UNCHANGED <<now, nextName, nextReq, kv, known, disp, sess, wire, cli, topo, left, commits>>

\* DB.Write failed: the handler answers 500 and returns; nothing is written
UploadWriteFail(n) ==
    /\ \E r \in reqs :
         /\ r.node = n /\ r.kind = "upload" /\ r.phase = "parts"
         /\ Answer(n, r.id, "upload", 500, {})
         /\ reqs' = reqs \ {r}
    /\ UNCHANGED <<now, nextName, nextReq, kv, known, disp, sess, wire, cli, topo, left, commits>>

\* DB.Write succeeded but writing the list of URLs to the client failed:
\* the handler answers with http.Error and returns before the sends on
\* h.Events
UploadEncodeFail(n) ==
    /\ \E r \in reqs :
         /\ r.node = n /\ r.kind = "upload" /\ r.phase = "parts"
         /\ kv' = [kv EXCEPT ![n] = Write(@, r.batch)]
         /\ Commit(n, r.events, "local")
         /\ Answer(n, r.id, "upload", 500, {})
         /\ reqs' = reqs \ {r}
    /\ UNCHANGED <<now, nextName, nextReq, known, disp, sess, wire, cli, topo, left>>

(***************************************************************************)
(* fileHandler.deleteFile                                                  *)
(***************************************************************************)
\* a delete batch that moved latest_event without storing the record
DeleteOpsNoRecord(name, key) ==
    << Del("file", name),
       Del("meta", name),
       Put("latest", "latest_event", key) >>

\* a delete batch that removed the metadata and left the content
DeleteOpsMetaOnly(name, key) ==
    << Del("meta", name),
       Put("event", key, Marshal(Event("DELETE", name, key))),
       Put("latest", "latest_event", key) >>

\* the batch of a delete: both keys of the file, the event, latest_event
DeleteOps(name, key) ==
    << Del("file", name),
       Del("meta", name),
       Put("event", key, Marshal(Event("DELETE", name, key))),
       Put("latest", "latest_event", key) >>

\* the handler up to DB.Write: the batch and the event with the clock's reading
DeleteMint(n) ==
    /\ ~ChildMode(n)
    /\ left.req[n] > 0
    /\ \E t \in {now, now + 1}, f \in DOMAIN known, h \in AuthHeaders :
         /\ Authenticate(h)
         /\ ReadClock(t)
         /\ reqs' = reqs \cup
              {[id |-> nextReq, node |-> n, kind |-> "delete", phase |-> "write",
                auth |-> h, drawer |-> <<>>, batch |-> DeleteOps(f, t), files |-> <<>>,
                events |-> <<Event("DELETE", f, t)>>]}
    /\ left' = [left EXCEPT !.req[n] = @ - 1]
    /\ nextReq' = nextReq + 1
    /\ UNCHANGED <<nextName, kv, known, disp, sess, wire, cli, topo, commits, resp>>

DeleteWrite(n) ==
    /\ \E r \in reqs :
         /\ r.node = n /\ r.kind = "delete" /\ r.phase = "write"
         /\ kv' = [kv EXCEPT ![n] = Write(@, r.batch)]
         /\ Commit(n, r.events, "local")
         /\ known' = [f \in DOMAIN known |->
                        IF f \in NamesOf(r) THEN [known[f] EXCEPT !.gone = TRUE]
                        ELSE known[f]]
         /\ Answer(n, r.id, "delete", 204, {})
         /\ reqs' = (reqs \ {r}) \cup {[r EXCEPT !.phase = "publish"]}
    /\ UNCHANGED <<now, nextName, nextReq, disp, sess, wire, cli, topo, left>>

DeleteWriteFail(n) ==
    /\ \E r \in reqs :
         /\ r.node = n /\ r.kind = "delete" /\ r.phase = "write"
         /\ Answer(n, r.id, "delete", 500, {})
         /\ reqs' = reqs \ {r}
    /\ UNCHANGED <<now, nextName, nextReq, kv, known, disp, sess, wire, cli, topo, left, commits>>

(***************************************************************************)
(* uploadFileHandler.store                                                 *)
(***************************************************************************)
\* a store batch whose metadata had no Source
StoreOpsNoSource(name, content, ct, uri, key) ==
    << Put("file", name, content),
       Put("meta", name, MetaData(ct, None)),
       Put("event", key, Marshal(Event("UPLOAD", name, key))),
       Put("latest", "latest_event", key) >>

StoreOps(name, content, ct, uri, key) ==
    << Put("file", name, content),
       Put("meta", name, MetaData(ct, uri)),
       Put("event", key, Marshal(Event("UPLOAD", name, key))),
       Put("latest", "latest_event", key) >>

\* the URL was fetched; the handler up to DB.Write
StoreMint(n) ==
    /\ Mutable(n)
    /\ left.req[n] > 0
    /\ \E t \in {now, now + 1}, b \in topo.contents, ct \in topo.cts, u \in Urls,
          h \in AuthHeaders, dr \in topo.drawers :
         /\ Authenticate(h)
         /\ ~BadName(dr)
         /\ ReadClock(t)
         /\ reqs' = reqs \cup
              {[id |-> nextReq, node |-> n, kind |-> "store", phase |-> "write",
                auth |-> h, drawer |-> dr,
                batch |-> StoreOps(nextName, b, ct, u, t),
                files |-> <<Sending(nextName, b, ct, u)>>,
                events |-> <<Event("UPLOAD", nextName, t)>>]}
    /\ left' = [left EXCEPT !.req[n] = @ - 1]
    /\ nextReq' = nextReq + 1
    /\ nextName' = nextName + 1
    /\ UNCHANGED <<kv, known, disp, sess, wire, cli, topo, commits, resp>>

\* DB.Write succeeded and the URL is answered; store sends nothing to Events
StoreWrite(n) ==
    /\ \E r \in reqs :
         /\ r.node = n /\ r.kind = "store" /\ r.phase = "write"
         /\ kv' = [kv EXCEPT ![n] = Write(@, r.batch)]
         /\ Commit(n, r.events, "local")
         /\ known' = Told(r.files)
         /\ Answer(n, r.id, "store", 200, NamesOf(r))
         /\ reqs' = reqs \ {r}
    /\ UNCHANGED <<now, nextName, nextReq, disp, sess, wire, cli, topo, left>>

StoreWriteFail(n) ==
    /\ \E r \in reqs :
         /\ r.node = n /\ r.kind = "store" /\ r.phase = "write"
         /\ Answer(n, r.id, "store", 500, {})
         /\ reqs' = reqs \ {r}
    /\ UNCHANGED <<now, nextName, nextReq, kv, known, disp, sess, wire, cli, topo, left, commits>>

(***************************************************************************)
(* dispatchEvents.  cur is the event being fanned out (NoEvent while the   *)
(* goroutine waits in its select), tgt the subscriber whose channel the    *)
(* range loop is sending on, todo the subscribers it has yet to visit.     *)
(***************************************************************************)
\* capacity of a session's events channel
SinkCap == 1

IdleDisp(subs) == [subs |-> subs, cur |-> NoEvent, tgt |-> None, todo |-> {}]

\* the range loop moves on to any subscriber it has not visited
NextTarget(d, rest) ==
    IF rest = {} THEN {IdleDisp(d.subs)}
    ELSE {[d EXCEPT !.tgt = s, !.todo = rest \ {s}] : s \in rest}

\* an event sent on Events by an upload or delete handler is received
Publish(n) ==
    /\ disp[n].cur = NoEvent
    /\ \E r \in reqs :
         /\ r.node = n /\ r.phase = "publish"
         /\ reqs' = IF Len(r.events) = 1 THEN reqs \ {r}
                    ELSE (reqs \ {r}) \cup {[r EXCEPT !.events = Tail(@)]}
         /\ \E d \in NextTarget([disp[n] EXCEPT !.cur = Head(r.events)], disp[n].subs) :
              disp' = [disp EXCEPT ![n] = d]
         /\ sess' = [sess EXCEPT ![n] =
              [s \in Slots |-> IF s \in disp[n].subs /\ @[s].up
                               THEN [@[s] EXCEPT !.owed = Owe(sess[n][s], {Marshal(Head(r.events))})]
                               ELSE @[s]]]
         /\ Commit(n, <<Head(r.events)>>, "pub")
    /\ UNCHANGED <<now, nextName, nextReq, kv, known, wire, cli, topo, left, resp>>

\* ch <- e: the send completes when the subscriber's channel has room
Deliver(n) ==
    /\ disp[n].cur # NoEvent
    /\ LET s == disp[n].tgt IN
         /\ Len(sess[n][s].sink) < SinkCap
         /\ sess' = [sess EXCEPT ![n][s].sink = Append(@, disp[n].cur)]
         /\ \E d \in NextTarget(disp[n], disp[n].todo) : disp' = [disp EXCEPT ![n] = d]
    /\ UNCHANGED <<now, nextName, nextReq, kv, reqs, known, wire, cli, topo, left, commits, resp>>

(***************************************************************************)
(* replHandler.handleWebsocket.  One slot is one call: main is the         *)
(* handler's own position ("sub": about to subscribe, "wait": at <-quit,   *)
(* "closed": returned), up whether the connection is open, sink the events *)
(* channel, crun and cache the caching goroutine (cacheEvents), fwd and    *)
(* iter the forwarding goroutine ("new": before NewIterator, "iter": in    *)
(* the iterator loop, "live": in the range over rawEvents, "exit": ended). *)
(* The receiving goroutine closes quit when the connection is lost, so     *)
(* quit is closed exactly when up is false.  sent records what a connected *)
(* session has put on the wire and owed what it has still to put there:    *)
(* the records of its iterator and the events published while it is        *)
(* subscribed.                                                             *)
(***************************************************************************)
\* the first message of a connection: whether it decodes as a
\* ReplicationStart, and its event value as the prefix before the number and
\* the number
NoStart == [ok |-> FALSE, prefix |-> "", key |-> NoKey]
ReplicationStart(cursor) == [ok |-> TRUE, prefix |-> "event:", key |-> cursor]

\* what a peer that is not a cabinet node may send first: bytes that do not
\* decode, a message without event, a key of a file, a well-formed cursor
Starts ==
    { NoStart,
      [ok |-> TRUE, prefix |-> "", key |-> NoKey],
      [ok |-> TRUE, prefix |-> "file:", key |-> 1],
      ReplicationStart(0),
      ReplicationStart(ClockStart) }

FreeSession ==
    [main |-> "free", peer |-> None, cursor |-> NoKey, up |-> FALSE,
     sink |-> <<>>, crun |-> FALSE, cache |-> <<>>,
     fwd |-> "exit", iter |-> <<>>, owed |-> {}, sent |-> {},
     auth |-> NoHeader, start |-> NoStart]

\* the quit channel is closed
Quit(x) == x.main = "wait" /\ ~x.up

\* a slot whose handler has returned and whose goroutines have ended is free
Reap(x) ==
    IF x.main = "closed" /\ ~x.crun /\ x.fwd = "exit" THEN FreeSession ELSE x

\* strings.HasPrefix(replStart.GetEvent(), "event:")
ValidCursor(c) == c # NoKey

\* the lowest free slot of serving node p
FreeSlot(p) == IF sess[p]["s1"].main = "free" THEN "s1" ELSE "s2"

\* a handler that did not look at the event value
AcceptsAnyStart(h, m) == Authenticate(h) /\ m.ok

\* the checks of handleWebsocket before it subscribes: the credentials, the
\* first message decodes, its event value begins with "event:"
Accepts(h, m) ==
    /\ Authenticate(h)
    /\ m.ok
    /\ m.prefix = "event:" /\ ValidCursor(m.key)

\* a peer of topo.strangers opens /api/repl of node n and sends its first
\* message; the handler is called
Dial(n) ==
    /\ \E s \in Slots : sess[n][s].main = "free"
    /\ \E p \in topo.strangers, hello \in topo.hellos :
         LET h == hello[1]
             m == hello[2] IN
         /\ \A k \in Nodes, s \in Slots : sess[k][s].peer # p
         /\ sess' = [sess EXCEPT ![n][FreeSlot(n)] =
              [FreeSession EXCEPT !.main = "hello", !.peer = p, !.up = TRUE,
                                  !.auth = h, !.start = m]]
         /\ wire' = [wire EXCEPT ![p] = <<>>]
    /\ UNCHANGED <<now, nextName, nextReq, kv, reqs, known, disp, cli, topo, left, commits, resp>>

\* the handler's checks: it goes on to subscribe with the cursor of the
\* message, or returns
Handshake(n) ==
    /\ \E s \in Slots :
         LET x == sess[n][s] IN
         /\ x.main = "hello"
         /\ sess' = [sess EXCEPT ![n][s] =
              IF Accepts(x.auth, x.start)
              THEN [x EXCEPT !.main = "sub", !.cursor = x.start.key]
              ELSE FreeSession]
    /\ UNCHANGED <<now, nextName, nextReq, kv, reqs, known, disp, wire, cli, topo, left, commits, resp>>

(***************************************************************************)
(* The keys of the database as bytes, for the iterator's range.  A key is  *)
(* held as its range and its name or number; its bytes are the bytes of    *)
(* the prefix and of the decimal digits.  A file: or meta: key goes on     *)
(* with the drawer, which no comparison made here reaches.                 *)
(***************************************************************************)
\* "event:", "file:", "meta:", "latest_event" and the Limit "f" in ASCII
EventPrefix == <<101, 118, 101, 110, 116, 58>>
FilePrefix == <<102, 105, 108, 101, 58>>
MetaPrefix == <<109, 101, 116, 97, 58>>
LatestEvent == <<108, 97, 116, 101, 115, 116, 95, 101, 118, 101, 110, 116>>
Limit == <<102>>

\* the ASCII digits of a number
DigitBytes(n) == [i \in DOMAIN FormatInt(n) |-> 48 + FormatInt(n)[i]]

Keys(db) ==
    {<<"event", k>> : k \in DOMAIN db.event} \cup
    {<<"file", f>> : f \in DOMAIN db.file} \cup
    {<<"meta", f>> : f \in DOMAIN db.meta} \cup
    (IF db.latest = NoKey THEN {} ELSE {<<"latest", 0>>})

KeyBytes(key) ==
    CASE key[1] = "event" -> EventPrefix \o DigitBytes(key[2])
      [] key[1] = "file" -> FilePrefix \o DigitBytes(key[2])
      [] key[1] = "meta" -> MetaPrefix \o DigitBytes(key[2])
      [] key[1] = "latest" -> LatestEvent

ValueOf(db, key) == IF key[1] = "latest" THEN db.latest ELSE db[key[1]][key[2]]


\* an iterator whose range ended at "g"
RangeKeysToG(db, cursor) ==
    {key \in Keys(db) :
        /\ ~BytesLess(KeyBytes(key), EventPrefix \o DigitBytes(cursor))
        /\ BytesLess(KeyBytes(key), <<103>>)}

\* util.Range{Start: replStart.GetEvent(), Limit: "f"}: the keys from Start,
\* Start included, to Limit, Limit excluded
RangeKeys(db, cursor) ==
    {key \in Keys(db) :
        /\ ~BytesLess(KeyBytes(key), EventPrefix \o DigitBytes(cursor))
        /\ BytesLess(KeyBytes(key), Limit)}

\* the values of a set of keys in the order of the keys
RECURSIVE InKeyOrder(_, _)
InKeyOrder(db, ks) ==
    IF ks = {} THEN <<>>
    ELSE LET k == CHOOSE x \in ks :
                    \A y \in ks : x = y \/ BytesLess(KeyBytes(x), KeyBytes(y))
         IN <<ValueOf(db, k)>> \o InKeyOrder(db, ks \ {k})

\* h.Replicator <- Subscribe, received by the dispatcher in its select; the
\* three goroutines are started
Subscribe(n) ==
    /\ disp[n].cur = NoEvent
    /\ \E s \in Slots :
         /\ sess[n][s].main = "sub"
         /\ disp' = [disp EXCEPT ![n].subs = @ \cup {s}]
         /\ sess' = [sess EXCEPT ![n][s] =
                       [@ EXCEPT !.main = "wait", !.crun = TRUE, !.fwd = "new"]]
    /\ UNCHANGED <<now, nextName, nextReq, kv, reqs, known, wire, cli, topo, left, commits, resp>>

\* h.DB.NewIterator: the forwarding goroutine takes its snapshot.  On a lost
\* connection its first Send fails and it ends; with rawEvents closed its
\* range ends
NewIterator(n) ==
    /\ \E s \in Slots :
         /\ sess[n][s].fwd = "new"
         /\ \E ks \in {RangeKeys(kv[n], sess[n][s].cursor)} :
              \E recs \in {InKeyOrder(kv[n], ks)} :
                 LET x == sess[n][s] IN
                 sess' = [sess EXCEPT ![n][s] =
                   IF x.up
                   THEN [@ EXCEPT !.fwd = IF recs = <<>> THEN "live" ELSE "iter",
                                  !.iter = recs,
                                  !.owed = Owe(x, {ValueOf(kv[n], k) : k \in ks})]
                   ELSE Reap([@ EXCEPT !.fwd = IF recs = <<>> /\ x.main = "wait"
                                               THEN "live" ELSE "exit"])]
    /\ UNCHANGED <<now, nextName, nextReq, kv, reqs, known, disp, wire, cli, topo, left, commits, resp>>

\* websocket.Message.Send of the iterator's next value
SendHistorical(n) ==
    /\ \E s \in Slots :
         LET x == sess[n][s] IN
         /\ x.fwd = "iter" /\ x.up
         /\ Len(wire[x.peer]) < WireCap
         /\ wire' = [wire EXCEPT ![x.peer] = Append(@, Head(x.iter))]
         /\ sess' = [sess EXCEPT ![n][s] =
              [@ EXCEPT !.iter = Tail(x.iter),
                        !.fwd = IF Len(x.iter) = 1 THEN "live" ELSE "iter",
                        !.owed = @ \ {Head(x.iter)},
                        !.sent = Sent(x, Head(x.iter))]]
    /\ UNCHANGED <<now, nextName, nextReq, kv, reqs, known, disp, cli, topo, left, commits, resp>>

\* a cache that received only while it held nothing
CacheReceiveWhenEmpty(n) ==
    /\ \E s \in Slots :
         LET x == sess[n][s] IN
         /\ x.crun /\ x.sink # <<>> /\ x.cache = <<>>
         /\ sess' = [sess EXCEPT ![n][s] =
              [@ EXCEPT !.sink = Tail(x.sink),
                        !.cache = Append(x.cache, Marshal(Head(x.sink)))]]
    /\ UNCHANGED <<now, nextName, nextReq, kv, reqs, known, disp, wire, cli, topo, left, commits, resp>>

\* a cache that put the newest event first
CacheReceiveStack(n) ==
    /\ \E s \in Slots :
         LET x == sess[n][s] IN
         /\ x.crun /\ x.sink # <<>>
         /\ sess' = [sess EXCEPT ![n][s] =
              [@ EXCEPT !.sink = Tail(x.sink),
                        !.cache = <<Marshal(Head(x.sink))>> \o x.cache]]
    /\ UNCHANGED <<now, nextName, nextReq, kv, reqs, known, disp, wire, cli, topo, left, commits, resp>>

\* cacheEvents receives an event from the session's events channel
CacheReceive(n) ==
    /\ \E s \in Slots :
         LET x == sess[n][s] IN
         /\ x.crun /\ x.sink # <<>>
         /\ sess' = [sess EXCEPT ![n][s] =
              [@ EXCEPT !.sink = Tail(x.sink),
                        !.cache = Append(x.cache, Marshal(Head(x.sink)))]]
    /\ UNCHANGED <<now, nextName, nextReq, kv, reqs, known, disp, wire, cli, topo, left, commits, resp>>

\* outgoingEvents <- cachedEvents[0], taken by the forwarding goroutine's
\* range over rawEvents and sent with websocket.Message.Send; on a lost
\* connection the Send fails and the forwarding goroutine ends
SendLive(n) ==
    /\ \E s \in Slots :
         LET x == sess[n][s] IN
         /\ x.crun /\ x.cache # <<>>
         /\ x.fwd = "live" /\ x.main = "wait"
         /\ IF x.up
            THEN /\ Len(wire[x.peer]) < WireCap
                 /\ wire' = [wire EXCEPT ![x.peer] = Append(@, Head(x.cache))]
                 /\ sess' = [sess EXCEPT ![n][s] =
                      [@ EXCEPT !.cache = Tail(x.cache), !.owed = @ \ {Head(x.cache)},
                                !.sent = Sent(x, Head(x.cache))]]
            ELSE /\ wire' = wire
                 /\ sess' = [sess EXCEPT ![n][s] =
                      [@ EXCEPT !.cache = Tail(x.cache), !.fwd = "exit"]]
    /\ UNCHANGED <<now, nextName, nextReq, kv, reqs, known, disp, cli, topo, left, commits, resp>>

\* cacheEvents takes the quit case of its select and returns
CacheQuit(n) ==
    /\ \E s \in Slots :
         /\ sess[n][s].crun
         /\ Quit(sess[n][s]) \/ sess[n][s].main = "closed"
         /\ sess' = [sess EXCEPT ![n][s] = Reap([@ EXCEPT !.crun = FALSE, !.cache = <<>>])]
    /\ UNCHANGED <<now, nextName, nextReq, kv, reqs, known, disp, wire, cli, topo, left, commits, resp>>

\* a handler that closed its channels without waiting for the dispatcher to
\* take its Unsubscribe
UnsubscribeUnheard(n) ==
    /\ \E s \in Slots :
         /\ Quit(sess[n][s])
         /\ disp' = [disp EXCEPT ![n].subs = @ \ {s}]
         /\ sess' = [sess EXCEPT ![n][s] =
              Reap([@ EXCEPT !.main = "closed", !.sink = <<>>, !.owed = {}, !.sent = {},
                             !.fwd = IF @ = "live" THEN "exit" ELSE @])]
    /\ UNCHANGED <<now, nextName, nextReq, kv, reqs, known, wire, cli, topo, left, commits, resp>>

\* after <-quit the deferred calls run: Unsubscribe is received by the
\* dispatcher in its select, then events and rawEvents are closed, which ends
\* the forwarding goroutine's range
Unsubscribe(n) ==
    /\ disp[n].cur = NoEvent
    /\ \E s \in Slots :
         /\ Quit(sess[n][s])
         /\ disp' = [disp EXCEPT ![n].subs = @ \ {s}]
         /\ sess' = [sess EXCEPT ![n][s] =
              Reap([@ EXCEPT !.main = "closed", !.sink = <<>>, !.owed = {}, !.sent = {},
                             !.fwd = IF @ = "live" THEN "exit" ELSE @])]
    /\ UNCHANGED <<now, nextName, nextReq, kv, reqs, known, wire, cli, topo, left, commits, resp>>

(***************************************************************************)
(* replicator.replicateUntilError.  pc is the goroutine's position in the  *)
(* receive loop ("loop": at Receive, "apply": past the duplicate check),   *)
(* conn whether its connection is open, msg the message and ev the event   *)
(* in hand.                                                                *)
(***************************************************************************)
IdleClient ==
    [pc |-> "loop", conn |-> FALSE, msg |-> NoMsg, ev |-> NoEvent,
     count |-> 0, naps |-> <<>>]

(***************************************************************************)
(* replicator.replicate: the retry loop around replicateUntilError.  count *)
(* is its counter; naps records, in the runs that ask for it, how long     *)
(* each failed session had lasted and how long the loop slept after it,    *)
(* in seconds.                                                             *)
(***************************************************************************)
\* time.Since(ts) < 5*time.Second
ShortSession == 5
\* if count < 5 { count++ }
BackoffCap == 5

\* a loop that never stopped counting
BackoffNoCap(count, d) == IF d < ShortSession THEN count + 1 ELSE 0

\* the counter after a session that failed d seconds after its start
Backoff(count, d) ==
    IF d < ShortSession
    THEN IF count < BackoffCap THEN count + 1 ELSE count
    ELSE 0

\* time.Duration(math.Pow(2, count)) seconds, if count > 0
SleepFor(count) == IF count > 0 THEN 2 ^ count ELSE 0

\* the goroutine after replicateUntilError returned an error
Failed(x, d) ==
    LET k == Backoff(x.count, d)
    IN [x EXCEPT !.conn = FALSE, !.count = k,
                 !.naps = IF "backoff" \in topo.log
                          THEN Append(x.naps, [d |-> d, sleep |-> SleepFor(k)])
                          ELSE x.naps]

\* the cursor the client sends: latest_event, or event:0 when the key is absent
StartCursor(db) == IF db.latest = NoKey THEN 0 ELSE db.latest

\* DialConfig, DB.Get of latest_event and the ReplicationStart message; the
\* parent's handler receives and accepts the message.  In a run with
\* topo.quiet the replicating node is started once the requests are over
Connect(c) ==
    /\ topo.parent[c] # None
    /\ cli[c].pc = "loop" /\ ~cli[c].conn
    /\ LET p == topo.parent[c] IN
         /\ \E s \in Slots : sess[p][s].main = "free"
         /\ Accepts(basicAuthEncode(Username, Password), ReplicationStart(StartCursor(kv[c])))
         /\ sess' = [sess EXCEPT ![p][FreeSlot(p)] =
              [FreeSession EXCEPT !.main = "sub", !.peer = c, !.up = TRUE,
                                  !.cursor = StartCursor(kv[c]),
                                  !.auth = basicAuthEncode(Username, Password),
                                  !.start = ReplicationStart(StartCursor(kv[c]))]]
    /\ cli' = [cli EXCEPT ![c].conn = TRUE]
    /\ wire' = [wire EXCEPT ![c] = <<>>]
    /\ topo.quiet => reqs = {}
    /\ left' = IF topo.quiet THEN [left EXCEPT !.req = [n \in Nodes |-> 0]] ELSE left
    /\ UNCHANGED <<now, nextName, nextReq, kv, reqs, known, disp, topo, commits, resp>>

\* a client that skipped the duplicate check
NeverHave(db, e) == FALSE

\* a client that compared the id with latest_event only
HaveLatest(db, e) == e.id = db.latest

\* r.DB.Has(event.GetId())
HaveEvent(db, e) == Has(db, e.id)

\* Receive, Unmarshal and the duplicate check: a duplicate is ignored
Receive(c) ==
    /\ cli[c].pc = "loop" /\ cli[c].conn
    /\ wire[c] # <<>>
    /\ LET m == Head(wire[c])
           e == Unmarshal(m)
       IN IF HaveEvent(kv[c], e)
          THEN /\ cli' = cli
               /\ Commit(c, <<e>>, "dup")
          ELSE /\ cli' = [cli EXCEPT ![c] = [@ EXCEPT !.pc = "apply", !.msg = m, !.ev = e]]
               /\ commits' = commits
    /\ wire' = [wire EXCEPT ![c] = Tail(@)]
    /\ UNCHANGED <<now, nextName, nextReq, kv, reqs, known, disp, sess, topo, left, resp>>

\* what the client reads of the parent's answer to GET /<drawer>/<filename>:
\* the body and the Content-Type header of a 200, nothing of another status
ServeFile(db, name) ==
    LET got == DeliverFile(db, name)
    IN IF got.status # 200 THEN NoBody
       ELSE [content |-> got.body, ct |-> got.ct]

\* r.downloadFile: the parent's answer, or an error
DownloadFile(c, name) == {ServeFile(kv[topo.parent[c]], name), NoBody}

\* a replication batch that stored the fetched file without its metadata
ReplOpsNoMeta(m, e, got) ==
    << Put("event", e.id, m), Put("latest", "latest_event", e.id) >> \o
    ( IF e.type = "UPLOAD"
      THEN IF got = NoBody THEN <<>>
           ELSE << Put("file", e.name, got.content) >>
      ELSE << Del("file", e.name) >> )

\* a client that stored an empty file when the fetch failed
ReplOpsBlank(m, e, got) ==
    << Put("event", e.id, m), Put("latest", "latest_event", e.id) >> \o
    ( IF e.type = "UPLOAD"
      THEN << Put("file", e.name, got.content),
              Put("meta", e.name, MetaData(got.ct, None)) >>
      ELSE << Del("file", e.name) >> )

\* the batch of a replicated event: the record under its id, latest_event,
\* and the file operations of its type
ReplOps(m, e, got) ==
    << Put("event", e.id, m), Put("latest", "latest_event", e.id) >> \o
    ( IF e.type = "UPLOAD"
      THEN IF got = NoBody THEN <<>>
           ELSE << Put("file", e.name, got.content),
                   Put("meta", e.name, MetaData(got.ct, None)) >>
      ELSE << Del("file", e.name) >> )

\* the parent's sessions after node c closed or lost its connection: quit is
\* closed and a Send in progress fails
Closed(c) ==
    [sess EXCEPT ![topo.parent[c]] =
       [s \in Slots |->
          IF @[s].peer = c /\ @[s].up
          THEN [@[s] EXCEPT !.up = FALSE, !.owed = {}, !.sent = {}, !.iter = <<>>,
                            !.fwd = IF @ = "iter" THEN "exit" ELSE @]
          ELSE @[s]]]

\* a client whose switch took every type for a DELETE
AnyType(e) == TRUE

\* switch event.GetType(): the cases Event_UPLOAD and Event_DELETE
KnownType(e) == e.type \in {"UPLOAD", "DELETE"}

\* the rest of the loop body for a new event: downloadFile for an UPLOAD,
\* then DB.Write of the batch.  For any other type than UPLOAD and DELETE
\* replicateUntilError returns an error before DB.Write, the deferred
\* ws.Close runs and replicate counts a failed session
Apply(c) ==
    /\ cli[c].pc = "apply"
    /\ IF KnownType(cli[c].ev)
       THEN /\ \E got \in IF cli[c].ev.type = "UPLOAD"
                          THEN DownloadFile(c, cli[c].ev.name) ELSE {NoBody} :
                 kv' = [kv EXCEPT ![c] = Write(@, ReplOps(cli[c].msg, cli[c].ev, got))]
            /\ Commit(c, <<cli[c].ev>>, "repl")
            /\ cli' = [cli EXCEPT ![c] = [@ EXCEPT !.pc = "loop", !.msg = NoMsg, !.ev = NoEvent]]
            /\ UNCHANGED <<sess, wire>>
       ELSE /\ kv' = kv
            /\ Commit(c, <<cli[c].ev>>, "err")
            /\ \E d \in topo.durations :
                 cli' = [cli EXCEPT ![c] =
                           Failed([@ EXCEPT !.pc = "loop", !.msg = NoMsg, !.ev = NoEvent], d)]
            /\ wire' = [wire EXCEPT ![c] = <<>>]
            /\ sess' = Closed(c)
    /\ UNCHANGED <<now, nextName, nextReq, reqs, known, disp, topo, left, resp>>

\* the connection to the parent is lost: both ends' Receive fail, what was
\* on the wire is gone, the session's quit is closed and a Send in progress
\* fails
Drop(c) ==
    /\ cli[c].conn
    /\ left.drops > 0
    /\ left' = [left EXCEPT !.drops = @ - 1]
    /\ \E d \in topo.durations : cli' = [cli EXCEPT ![c] = Failed(cli[c], d)]
    /\ wire' = [wire EXCEPT ![c] = <<>>]
    /\ sess' = Closed(c)
    /\ UNCHANGED <<now, nextName, nextReq, kv, reqs, known, disp, topo, commits, resp>>

\* the position of every goroutine of a process that a panic has ended
Panicked == "panic"

\* cacheEvents is at its select with cached events after the handler has
\* returned: quit, events and rawEvents are closed, and of the three ready
\* cases the select takes outgoingEvents <- cachedEvents[0], a send on a
\* closed channel.  The goroutine panics and the process of node n ends:
\* its requests in flight, its dispatcher, its sessions and its own
\* replication are gone, it serves nothing more, and the connections to it
\* are lost.  Its store stays as it is
CachePanic(n) ==
    /\ \E s \in Slots :
         LET x == sess[n][s] IN x.crun /\ x.main = "closed" /\ x.cache # <<>>
    /\ sess' = [m \in Nodes |->
                  IF m = n THEN [s \in Slots |-> [FreeSession EXCEPT !.main = Panicked]]
                  ELSE IF m = topo.parent[n] THEN Closed(n)[m]
                  ELSE sess[m]]
    /\ disp' = [disp EXCEPT ![n] = IdleDisp({})]
    /\ reqs' = {r \in reqs : r.node # n}
    /\ left' = [left EXCEPT !.req[n] = 0]
    /\ \E d \in topo.durations :
         cli' = [c \in Nodes |->
                   IF c = n THEN [IdleClient EXCEPT !.pc = Panicked]
                   ELSE IF topo.parent[c] = n /\ cli[c].conn
                        THEN Failed(cli[c], d)
                        ELSE cli[c]]
    /\ wire' = [c \in Nodes |-> IF c = n \/ topo.parent[c] = n THEN <<>> ELSE wire[c]]
    /\ UNCHANGED <<now, nextName, nextReq, kv, known, topo, commits, resp>>

\* a parent of topo.foreign runs a later version of the protocol: besides
\* its own events its session sends an event of a type this version does
\* not know, under any key
SendForeign(p) ==
    /\ p \in topo.foreign
    /\ left.drops > 0
    /\ left' = [left EXCEPT !.drops = @ - 1]
    /\ \E s \in Slots, t \in ClockStart .. topo.clockMax :
         LET x == sess[p][s] IN
         /\ x.up /\ x.fwd = "live"
         /\ Len(wire[x.peer]) < WireCap
         /\ wire' = [wire EXCEPT ![x.peer] = Append(@, <<Event_DELETE + 1, 1, t>>)]
    /\ UNCHANGED <<now, nextName, nextReq, kv, reqs, known, disp, sess, cli, topo, commits, resp>>

(***************************************************************************)
(* The keys of the file and meta records as the handlers build them from   *)
(* a drawer and a filename, and the handlers with the name of a file       *)
(* written out as these two strings.  A request is served at once here:    *)
(* the batch, DB.Write, the answer, and the send of the event to a         *)
(* dispatcher without subscribers.                                         *)
(***************************************************************************)
\* "file:"+drawerName+":"+filename and "meta:"+drawerName+":"+filename
Path(drawer, filename) == drawer \o <<":">> \o filename
FileKey(drawer, filename) == <<"f", "i", "l", "e", ":">> \o Path(drawer, filename)
MetaKey(drawer, filename) == <<"m", "e", "t", "a", ":">> \o Path(drawer, filename)

\* uuid.ShortString() of the k-th new file
Uuids == << <<"Z">>, <<"5">> >>

\* the values of the form field ext
Exts == {<<>>, <<"a">>}

\* filename := uuid.ShortString(); filename += "." + extension
Filename(uuid, ext) == IF ext = <<>> THEN uuid ELSE uuid \o <<".">> \o ext

\* the drawers of the requests: "d" fails the check of upload and store
PathDrawers == {<<"a">>, <<"a", ":">>, <<"d">>}

\* the second parts of the paths of GET and DELETE requests
Filenames ==
    LET made == {Filename(Uuids[k], e) : k \in DOMAIN Uuids, e \in Exts}
    IN made \cup {<<":">> \o f : f \in made}

\* upload of one part into a drawer
UploadAt(n) ==
    /\ Mutable(n)
    /\ left.req[n] > 0
    /\ nextName \in DOMAIN Uuids
    /\ \E h \in AuthHeaders : Authenticate(h)
    /\ \E t \in {now, now + 1}, b \in topo.contents, ct \in topo.cts,
          dr \in topo.drawers, ext \in Exts :
         LET fn == Filename(Uuids[nextName], ext) IN
         /\ ReadClock(t)
         /\ ~BadName(dr)
         /\ kv' = [kv EXCEPT ![n] = Write(@, UploadOps(Path(dr, fn), b, ct, t))]
         /\ Commit(n, <<Event("UPLOAD", Path(dr, fn), t)>>, "local")
         /\ known' = [p \in DOMAIN known \cup {<<dr, fn>>} |->
                        IF p = <<dr, fn>>
                        THEN [content |-> b, ct |-> ct, src |-> None, gone |-> FALSE]
                        ELSE known[p]]
         /\ Answer(n, nextReq, "upload", 200, {<<dr, fn>>})
    /\ left' = [left EXCEPT !.req[n] = @ - 1]
    /\ nextReq' = nextReq + 1
    /\ nextName' = nextName + 1
    /\ UNCHANGED <<reqs, disp, sess, wire, cli, topo>>

\* DELETE /<drawer>/<filename>: the two parts of the path are not checked
DeleteAt(n) ==
    /\ ~ChildMode(n)
    /\ left.req[n] > 0
    /\ \E h \in AuthHeaders : Authenticate(h)
    /\ \E t \in {now, now + 1}, dr \in topo.drawers, fn \in Filenames :
         /\ ReadClock(t)
         /\ kv' = [kv EXCEPT ![n] = Write(@, DeleteOps(Path(dr, fn), t))]
         /\ Commit(n, <<Event("DELETE", Path(dr, fn), t)>>, "local")
         /\ known' = [p \in DOMAIN known |->
                        IF p = <<dr, fn>> THEN [known[p] EXCEPT !.gone = TRUE]
                        ELSE known[p]]
         /\ Answer(n, nextReq, "delete", 204, {<<dr, fn>>})
    /\ left' = [left EXCEPT !.req[n] = @ - 1]
    /\ nextReq' = nextReq + 1
    /\ UNCHANGED <<nextName, reqs, disp, sess, wire, cli, topo>>

\* GET /<drawer>/<filename>
DeliverAt(n) ==
    /\ \E dr \in topo.drawers, fn \in Filenames :
         Answer(n, 0, "get", DeliverFile(kv[n], Path(dr, fn)).status, {<<dr, fn>>})
    /\ UNCHANGED <<now, nextName, nextReq, kv, reqs, known, disp, sess, wire, cli, topo, left, commits>>

(***************************************************************************)
(* Deployments.                                                            *)
(***************************************************************************)
StartAt(clock, t, l) ==
    /\ now = clock
    /\ nextName = 1
    /\ nextReq = 1
    /\ kv = [n \in Nodes |-> EmptyDB]
    /\ reqs = {}
    /\ known = <<>>
    /\ disp = [n \in Nodes |-> IdleDisp({})]
    /\ sess = [n \in Nodes |-> [s \in Slots |-> FreeSession]]
    /\ wire = [n \in Nodes |-> <<>>]
    /\ cli = [n \in Nodes |-> IdleClient]
    /\ commits = [n \in Nodes |-> <<>>]
    /\ resp = NoResp
    /\ topo = t
    /\ left = l

\* a node started at the first clock reading of the runs
Start(t, l) == StartAt(ClockStart, t, l)

NoParent == [n \in Nodes |-> None]
NoForce == [n \in Nodes |-> FALSE]
NoQuota == [m \in Nodes |-> 0]
Only(n, k) == [m \in Nodes |-> IF m = n THEN k ELSE 0]

Handlers(n) ==
    \/ UploadPart(n) \/ UploadWrite(n) \/ UploadWriteFail(n)
    \/ DeleteMint(n) \/ DeleteWrite(n) \/ DeleteWriteFail(n)
    \/ StoreMint(n) \/ StoreWrite(n) \/ StoreWriteFail(n)
    \/ Publish(n)

\* one parent node A serving uploads into drawers and GET and DELETE
\* requests for any path of two parts
PathInit ==
    Start([parent |-> NoParent, force |-> NoForce, log |-> {"http"}, quiet |-> FALSE,
           clockMax |-> ClockStart + 1, maxParts |-> 1,
           contents |-> {"b"}, cts |-> {"ct"},
           durations |-> {ShortSession}, strangers |-> {}, foreign |-> {},
           drawers |-> PathDrawers, hellos |-> {}],
          [req |-> Only("A", NodeQuota), drops |-> 0])
PathNext == \E n \in Nodes : UploadAt(n) \/ DeleteAt(n) \/ DeliverAt(n)
PathSpec == PathInit /\ [][PathNext]_vars

\* one parent node A serving HTTP requests, no replication peer
NodeInit ==
    Start([parent |-> NoParent, force |-> NoForce, log |-> {"commits"}, quiet |-> FALSE,
           clockMax |-> ClockStart + ClockSpan, maxParts |-> MaxParts,
           contents |-> {"b"}, cts |-> {"ct"},
           durations |-> {ShortSession}, strangers |-> {}, foreign |-> {},
           drawers |-> OneDrawer, hellos |-> {}],
          [req |-> Only("A", NodeQuota), drops |-> 0])
NodeNext == \E n \in Nodes : Handlers(n)
NodeSpec == NodeInit /\ [][NodeNext]_vars

\* one parent node A serving uploads of several parts to clients that may
\* be gone when the answer is written
BatchInit ==
    Start([parent |-> NoParent, force |-> NoForce, log |-> {"commits"}, quiet |-> FALSE,
           clockMax |-> ClockStart + ClockSpan, maxParts |-> MaxParts,
           contents |-> {"b"}, cts |-> {"ct"},
           durations |-> {ShortSession}, strangers |-> {}, foreign |-> {},
           drawers |-> OneDrawer, hellos |-> {}],
          [req |-> Only("A", NodeQuota), drops |-> 0])
BatchNext ==
    \E n \in Nodes :
        \/ UploadPart(n) \/ UploadWrite(n) \/ UploadWriteFail(n)
        \/ UploadEncodeFail(n) \/ Publish(n)
BatchSpec == BatchInit /\ [][BatchNext]_vars

\* one parent node A and a single request of a client that names any drawer
DrawerInit ==
    Start([parent |-> NoParent, force |-> NoForce, log |-> {"http"}, quiet |-> FALSE,
           clockMax |-> ClockStart, maxParts |-> 1,
           contents |-> {"b"}, cts |-> {"ct"},
           durations |-> {ShortSession}, strangers |-> {}, foreign |-> {},
           drawers |-> NamesUpTo(MaxName), hellos |-> {}],
          [req |-> Only("A", 1), drops |-> 0])
DrawerNext ==
    \E n \in Nodes :
        \/ UploadPart(n) \/ UploadWrite(n) \/ UploadWriteFail(n)
        \/ StoreMint(n) \/ StoreWrite(n) \/ StoreWriteFail(n)
        \/ Publish(n) \/ BadDrawer(n)
DrawerSpec == DrawerInit /\ [][DrawerNext]_vars

\* the last clock reading with one digit less than ClockStart
Shorter == 10 ^ (Len(FormatInt(ClockStart)) - 1) - 1

\* one parent node A started at that reading, so that the clock passes from
\* one number of digits to the next while it serves requests
RolloverInit ==
    StartAt(Shorter,
            [parent |-> NoParent, force |-> NoForce, log |-> {}, quiet |-> FALSE,
             clockMax |-> Shorter + ClockSpan, maxParts |-> 1,
             contents |-> {"b"}, cts |-> {"ct"},
             durations |-> {ShortSession}, strangers |-> {}, foreign |-> {},
             drawers |-> OneDrawer, hellos |-> {}],
            [req |-> Only("A", NodeQuota), drops |-> 0])
RolloverNext == \E n \in Nodes : Handlers(n)
RolloverSpec == RolloverInit /\ [][RolloverNext]_vars

\* one parent node A and clients that send any content, any content type and
\* any Authorization header
HttpInit ==
    Start([parent |-> NoParent, force |-> NoForce, log |-> {"http", "commits"}, quiet |-> FALSE,
           clockMax |-> ClockStart + HttpQuota - 1, maxParts |-> 1,
           contents |-> Contents, cts |-> ContentTypes,
           durations |-> {ShortSession}, strangers |-> {}, foreign |-> {},
           drawers |-> OneDrawer, hellos |-> {}],
          [req |-> Only("A", HttpQuota), drops |-> 0])
HttpNext == \E n \in Nodes : Handlers(n) \/ Unauthorized(n)
HttpSpec == HttpInit /\ [][HttpNext]_vars

\* parent A and its pure child B
Pair(log, quiet, drops) ==
    Start([parent |-> [NoParent EXCEPT !["B"] = "A"], force |-> NoForce,
           log |-> log, quiet |-> quiet,
           clockMax |-> ClockStart + ReplQuota - 1, maxParts |-> 1,
           contents |-> {"b"}, cts |-> {"ct"},
           durations |-> {ShortSession}, strangers |-> {}, foreign |-> {},
           drawers |-> OneDrawer, hellos |-> {}],
          [req |-> Only("A", ReplQuota), drops |-> drops])

\* the pair with mutating requests to both nodes: two to the parent, enough
\* to create a file and delete it; the connection is never lost
GateInit ==
    Start([parent |-> [NoParent EXCEPT !["B"] = "A"], force |-> NoForce,
           log |-> {"http", "commits"}, quiet |-> FALSE,
           clockMax |-> ClockStart + 1, maxParts |-> 1,
           contents |-> {"b"}, cts |-> {"ct"},
           durations |-> {ShortSession}, strangers |-> {}, foreign |-> {},
           drawers |-> OneDrawer, hellos |-> {}],
          [req |-> [Only("A", 2) EXCEPT !["B"] = GateQuota], drops |-> 0])
GateNext ==
    \E n \in Nodes :
        \/ Handlers(n) \/ Unauthorized(n) \/ Refused(n)
        \/ Deliver(n) \/ Subscribe(n) \/ NewIterator(n) \/ SendHistorical(n)
        \/ CacheReceive(n) \/ SendLive(n)
        \/ Connect(n) \/ Receive(n) \/ Apply(n)
GateSpec == GateInit /\ [][GateNext]_vars

\* the pair with the parent's responses recorded; the connection is never
\* lost
AnswerInit == Pair({"http"}, FALSE, 0)
AnswerNext ==
    \E n \in Nodes :
        \/ Handlers(n)
        \/ Deliver(n) \/ Subscribe(n) \/ NewIterator(n) \/ SendHistorical(n)
        \/ CacheReceive(n) \/ SendLive(n)
        \/ Connect(n) \/ Receive(n) \/ Apply(n)
AnswerSpec == AnswerInit /\ [][AnswerNext]_vars

\* parent A and a peer C that is no cabinet node and opens /api/repl of the
\* parent with any credentials and any first message; the connection is
\* never lost
HelloInit ==
    Start([parent |-> NoParent, force |-> NoForce,
           log |-> {}, quiet |-> FALSE,
           clockMax |-> ClockStart + ReplQuota - 1, maxParts |-> 1,
           contents |-> {"b"}, cts |-> {"ct"},
           durations |-> {ShortSession}, strangers |-> {"C"}, foreign |-> {},
           drawers |-> OneDrawer, hellos |-> AuthHeaders \X Starts],
          [req |-> Only("A", ReplQuota), drops |-> 0])
HelloNext ==
    \E n \in Nodes :
        \/ Handlers(n)
        \/ Dial(n) \/ Handshake(n)
        \/ Deliver(n) \/ Subscribe(n) \/ NewIterator(n) \/ SendHistorical(n)
        \/ CacheReceive(n) \/ SendLive(n)
HelloSpec == HelloInit /\ [][HelloNext]_vars

\* parent A of a later version and child B; a single upload of one part
ForeignInit ==
    Start([parent |-> [NoParent EXCEPT !["B"] = "A"], force |-> NoForce,
           log |-> {"commits"}, quiet |-> FALSE,
           clockMax |-> ClockStart + 1, maxParts |-> 1,
           contents |-> {"b"}, cts |-> {"ct"},
           durations |-> {ShortSession}, strangers |-> {}, foreign |-> {"A"},
           drawers |-> OneDrawer, hellos |-> {}],
          [req |-> Only("A", 1), drops |-> ReplDrops])
ForeignNext ==
    \E n \in Nodes :
        \/ UploadPart(n) \/ UploadWrite(n) \/ UploadWriteFail(n) \/ Publish(n)
        \/ Deliver(n) \/ Subscribe(n) \/ NewIterator(n) \/ SendHistorical(n)
        \/ CacheReceive(n) \/ SendLive(n) \/ CacheQuit(n) \/ Unsubscribe(n)
        \/ Connect(n) \/ Receive(n) \/ Apply(n) \/ SendForeign(n)
ForeignSpec == ForeignInit /\ [][ForeignNext]_vars

\* the cursors of the peers that are no cabinet nodes: the client's first
\* cursor, the key before the first clock reading of the run, which has one
\* digit less, and the first two readings
Cursors == {0, ClockStart - 1, ClockStart, ClockStart + 1}

\* parent A and a peer C with the instance's credentials that asks for the
\* events from any of these cursors; the connection is never lost
RangeInit ==
    Start([parent |-> NoParent, force |-> NoForce,
           log |-> {}, quiet |-> FALSE,
           clockMax |-> ClockStart + ReplQuota - 1, maxParts |-> 1,
           contents |-> {"b"}, cts |-> {"ct"},
           durations |-> {ShortSession}, strangers |-> {"C"}, foreign |-> {},
           drawers |-> OneDrawer,
           hellos |-> {<<basicAuthEncode(Username, Password), ReplicationStart(c)>> :
                         c \in Cursors}],
          [req |-> Only("A", ReplQuota), drops |-> 0])
RangeNext ==
    \E n \in Nodes :
        \/ Handlers(n)
        \/ Dial(n) \/ Handshake(n)
        \/ Deliver(n) \/ Subscribe(n) \/ NewIterator(n) \/ SendHistorical(n)
        \/ CacheReceive(n) \/ SendLive(n)
RangeSpec == RangeInit /\ [][RangeNext]_vars

\* the connection is never lost
SteadyInit == Pair({}, FALSE, 0)
SteadyNext ==
    \E n \in Nodes :
        \/ Handlers(n)
        \/ Deliver(n) \/ Subscribe(n) \/ NewIterator(n) \/ SendHistorical(n)
        \/ CacheReceive(n) \/ SendLive(n)
        \/ Connect(n) \/ Receive(n) \/ Apply(n)
SteadySpec == SteadyInit /\ [][SteadyNext]_vars

\* the child is started when the parent's requests are over
CatchUpInit == Pair({}, TRUE, 0)
CatchUpNext ==
    \E n \in Nodes :
        \/ Handlers(n)
        \/ Subscribe(n) \/ NewIterator(n) \/ SendHistorical(n)
        \/ Connect(n) \/ Receive(n) \/ Apply(n)
CatchUpSpec == CatchUpInit /\ [][CatchUpNext]_vars

\* the connection may be lost and the child reconnects
Init == Pair({}, FALSE, ReplDrops)
Next ==
    \E n \in Nodes :
        \/ Handlers(n)
        \/ Deliver(n) \/ Subscribe(n) \/ NewIterator(n) \/ SendHistorical(n)
        \/ CacheReceive(n) \/ SendLive(n) \/ CacheQuit(n) \/ Unsubscribe(n)
        \/ Connect(n) \/ Receive(n) \/ Apply(n) \/ Drop(n)
Spec == Init /\ [][Next]_vars

\* parent A without requests and child B, whose sessions fail after less
\* than five seconds or after five
BackoffInit ==
    Start([parent |-> [NoParent EXCEPT !["B"] = "A"], force |-> NoForce,
           log |-> {"backoff"}, quiet |-> FALSE,
           clockMax |-> ClockStart, maxParts |-> 1,
           contents |-> {"b"}, cts |-> {"ct"},
           durations |-> {ShortSession - 1, ShortSession}, strangers |-> {}, foreign |-> {},
           drawers |-> OneDrawer, hellos |-> {}],
          [req |-> Only("A", 0), drops |-> BackoffTries])
BackoffNext ==
    \E n \in Nodes :
        \/ Subscribe(n) \/ NewIterator(n) \/ CacheQuit(n) \/ Unsubscribe(n)
        \/ Connect(n) \/ Drop(n)
BackoffSpec == BackoffInit /\ [][BackoffNext]_vars

\* three forced-parent nodes in a ring, each replicating from the one before
\* it; a single upload of one part at A
Ring(drops) ==
    Start([parent |-> [n \in Nodes |-> CASE n = "A" -> "C" [] n = "B" -> "A" [] n = "C" -> "B"],
           force |-> [n \in Nodes |-> TRUE], log |-> {"commits"}, quiet |-> FALSE,
           clockMax |-> ClockStart, maxParts |-> 1,
           contents |-> {"b"}, cts |-> {"ct"},
           durations |-> {ShortSession}, strangers |-> {}, foreign |-> {},
           drawers |-> OneDrawer, hellos |-> {}],
          [req |-> Only("A", 1), drops |-> drops])
RingInit == Ring(0)
RingNext ==
    \E n \in Nodes :
        \/ UploadPart(n) \/ UploadWrite(n) \/ UploadWriteFail(n) \/ Publish(n)
        \/ Deliver(n) \/ Subscribe(n) \/ NewIterator(n) \/ SendHistorical(n)
        \/ CacheReceive(n) \/ SendLive(n)
        \/ Connect(n) \/ Receive(n) \/ Apply(n)
RingSpec == RingInit /\ [][RingNext]_vars

\* two forced-parent nodes replicating from each other, with one upload of
\* one part at each of them, which may read the same clock value or
\* different ones
MastersInit ==
    Start([parent |-> [NoParent EXCEPT !["A"] = "B", !["B"] = "A"],
           force |-> [n \in Nodes |-> TRUE], log |-> {}, quiet |-> FALSE,
           clockMax |-> ClockStart + 1, maxParts |-> 1,
           contents |-> {"b"}, cts |-> {"ct"},
           durations |-> {ShortSession}, strangers |-> {}, foreign |-> {},
           drawers |-> OneDrawer, hellos |-> {}],
          [req |-> [NoQuota EXCEPT !["A"] = 1, !["B"] = 1], drops |-> 0])
MastersSpec == MastersInit /\ [][RingNext]_vars

RingDropInit == Ring(ReplDrops)
RingDropNext ==
    \E n \in Nodes :
        \/ UploadPart(n) \/ UploadWrite(n) \/ UploadWriteFail(n) \/ Publish(n)
        \/ Deliver(n) \/ Subscribe(n) \/ NewIterator(n) \/ SendHistorical(n)
        \/ CacheReceive(n) \/ SendLive(n) \/ CacheQuit(n) \/ Unsubscribe(n)
        \/ Connect(n) \/ Receive(n) \/ Apply(n) \/ Drop(n)
RingDropSpec == RingDropInit /\ [][RingDropNext]_vars

\* parent and child with uploads and connection losses, under the scheduling
\* of the Go runtime: a goroutine that can take a step takes it, and a select with a
\* ready case is not passed over for ever.  Requests arrive, writes fail and
\* connections are lost as the environment pleases
LiveInit == Pair({"sessions"}, FALSE, ReplDrops)
LiveNext ==
    \E n \in Nodes :
        \/ UploadPart(n) \/ UploadWrite(n) \/ UploadWriteFail(n) \/ Publish(n)
        \/ Deliver(n) \/ Subscribe(n) \/ NewIterator(n) \/ SendHistorical(n)
        \/ CacheReceive(n) \/ SendLive(n) \/ CacheQuit(n) \/ Unsubscribe(n)
        \/ Connect(n) \/ Receive(n) \/ Apply(n) \/ Drop(n)
Fairness ==
    /\ WF_vars(\E n \in Nodes : UploadWrite(n))
    /\ WF_vars(\E n \in Nodes : Publish(n))
    /\ WF_vars(\E n \in Nodes : Deliver(n))
    /\ WF_vars(\E n \in Nodes : Subscribe(n))
    /\ WF_vars(\E n \in Nodes : Unsubscribe(n))
    /\ WF_vars(\E n \in Nodes : NewIterator(n) \/ SendHistorical(n) \/ SendLive(n))
    /\ WF_vars(\E n \in Nodes : CacheReceive(n))
    /\ WF_vars(\E n \in Nodes : CacheQuit(n))
    /\ WF_vars(\E n \in Nodes : Connect(n) \/ Receive(n) \/ Apply(n))
LiveSpec == LiveInit /\ [][LiveNext]_vars /\ Fairness

\* parent and child with uploads and connection losses, in which the panic
\* of a goroutine ends the process
TeardownNext ==
    \E n \in Nodes :
        \/ UploadPart(n) \/ UploadWrite(n) \/ Publish(n)
        \/ Deliver(n) \/ Subscribe(n) \/ NewIterator(n) \/ SendHistorical(n)
        \/ CacheReceive(n) \/ SendLive(n) \/ CacheQuit(n) \/ CachePanic(n)
        \/ Unsubscribe(n)
        \/ Connect(n) \/ Receive(n) \/ Apply(n) \/ Drop(n)
TeardownSpec == Pair({}, FALSE, ReplDrops) /\ [][TeardownNext]_vars

\* parent and child with uploads of up to MaxParts parts, a connection that
\* is never lost and a child that may stop reading it for ever: only the parent's dispatcher and caching goroutines are scheduled
\* fairly, and nothing is assumed of the child, the wire and the requests
StallInit ==
    Start([parent |-> [NoParent EXCEPT !["B"] = "A"], force |-> NoForce,
           log |-> {}, quiet |-> FALSE,
           clockMax |-> ClockStart + ReplQuota - 1, maxParts |-> MaxParts,
           contents |-> {"b"}, cts |-> {"ct"},
           durations |-> {ShortSession}, strangers |-> {}, foreign |-> {},
           drawers |-> OneDrawer, hellos |-> {}],
          [req |-> Only("A", ReplQuota), drops |-> 0])
StallNext ==
    \E n \in Nodes :
        \/ UploadPart(n) \/ UploadWrite(n) \/ Publish(n)
        \/ Deliver(n) \/ Subscribe(n) \/ NewIterator(n) \/ SendHistorical(n)
        \/ CacheReceive(n) \/ SendLive(n)
        \/ Connect(n) \/ Receive(n) \/ Apply(n)
ServerFairness ==
    /\ WF_vars(\E n \in Nodes : Deliver(n))
    /\ WF_vars(\E n \in Nodes : CacheReceive(n))
StallSpec == StallInit /\ [][StallNext]_vars /\ ServerFairness

(***************************************************************************)
(* Properties of the key-value store.                                      *)
(***************************************************************************)
\* C8: at every node, whenever latest_event is present its value is the key
\* of an event record that exists in the same store.
C8_LatestEventExists ==
    \A n \in Nodes : kv[n].latest # NoKey => kv[n].latest \in DOMAIN kv[n].event

\* parent and child both hold events, the parent after a delete of its own
\* and the child after a replicated one
C8_Reached ==
    /\ kv["B"].latest # NoKey
    /\ \E k \in DOMAIN kv["A"].event : Unmarshal(kv["A"].event[k]).type = "DELETE"

\* C9: at every node, a file: key that exists has its meta: key.
C9_FileHasMeta ==
    \A n \in Nodes : DOMAIN kv[n].file \subseteq DOMAIN kv[n].meta

\* the child holds a file it fetched for a replicated upload while the parent
\* has deleted a file
C9_Reached ==
    /\ DOMAIN kv["B"].file # {}
    /\ \E k \in DOMAIN kv["A"].event : Unmarshal(kv["A"].event[k]).type = "DELETE"

(***************************************************************************)
(* Properties of the replication client.                                   *)
(***************************************************************************)
\* the client c is at Receive and the next message carries an id it holds
DuplicateNext(c) ==
    /\ cli[c].pc = "loop" /\ cli[c].conn
    /\ wire[c] # <<>>
    /\ Has(kv[c], Unmarshal(Head(wire[c])).id)

\* C6: a step in which the client takes a message whose id exists in its
\* store changes nothing but the connection's content: no key is written, no
\* file is fetched, and the client is at Receive again.
C6_DuplicateIgnored ==
    [][\A c \in Nodes :
         (DuplicateNext(c) /\ cli'[c].conn /\ wire'[c] = Tail(wire[c]))
             => /\ kv' = kv
                /\ cli' = cli
                /\ UNCHANGED <<reqs, known, disp, sess>>]_vars

\* the child is about to take a message whose record it has stored
C6_Reached == DuplicateNext("B")

(***************************************************************************)
(* Properties of delete and of the event log.                              *)
(***************************************************************************)
\* the batches the HTTP handlers of node n have committed
LocalCommits(n) == SelectSeq(commits[n], LAMBDA c : c.src = "local")

\* the names whose DELETE event node n has stored
Deleted(n) ==
    {Unmarshal(kv[n].event[k]).name :
        k \in {x \in DOMAIN kv[n].event : Unmarshal(kv[n].event[x]).type = "DELETE"}}

\* C10: at every node, origin or replica, a file whose DELETE event the node
\* has applied has neither its file: key nor its meta: key (a name is
\* uploaded once, so no later upload creates the keys anew).
C10_DeleteRemovesBoth ==
    \A n \in Nodes : \A f \in Deleted(n) :
        f \notin DOMAIN kv[n].file /\ f \notin DOMAIN kv[n].meta

\* the keys of the batches node n has committed, in the order of the commits
CommitKeys(n) == [i \in 1..Len(LocalCommits(n)) |-> LocalCommits(n)[i].key]

\* C7: on a node that accepts mutations, N committed events leave N event
\* records, the order of their keys is the order of the commits, and
\* latest_event is the key of the event committed last, which is the
\* greatest key.
C7_LogTotal ==
    \A n \in Nodes :
        LET ks == CommitKeys(n) IN
        /\ Cardinality(DOMAIN kv[n].event) = Len(ks)
        /\ \A i, j \in 1..Len(ks) : i < j => KeyLess(ks[i], ks[j])
        /\ ks # <<>> =>
             /\ kv[n].latest = ks[Len(ks)]
             /\ \A k \in DOMAIN kv[n].event : KeyLeq(k, kv[n].latest)

(***************************************************************************)
(* Properties of a ring of forced-parent nodes.                            *)
(***************************************************************************)
\* the batches node n has written, as origin or as replication client, and
\* the duplicates it has dropped
Applications(n) == SelectSeq(commits[n], LAMBDA c : c.src \in {"local", "repl"})
Dropped(n) == SelectSeq(commits[n], LAMBDA c : c.src = "dup")

\* C4: for a single upload at A every node writes the event's record at most
\* once, A never writes it as a replication client, and the ring writes it
\* at most as many times as it has nodes.
C4_RingStops ==
    /\ \A n \in Nodes : Len(Applications(n)) <= 1
    /\ \A i \in 1..Len(commits["A"]) : commits["A"][i].src # "repl"
    /\ Len(Applications("A")) + Len(Applications("B")) + Len(Applications("C"))
          <= Cardinality(Nodes)

\* the event went round the ring: B and C applied it and A, which received
\* it from C, dropped it
C4_Reached ==
    /\ \A n \in Nodes : Len(Applications(n)) = 1
    /\ Dropped("A") # <<>>

\* every node's client is connected and waits in Receive, every session has
\* sent what it had to send and waits for live events, no request and no
\* event is under way, and the upload at A has been committed
RingSettled ==
    /\ reqs = {} /\ left.req["A"] = 0
    /\ Applications("A") # <<>>
    /\ \A n \in Nodes :
         /\ cli[n].conn /\ cli[n].pc = "loop" /\ wire[n] = <<>>
         /\ disp[n].cur = NoEvent
         /\ \E s \in Slots :
              /\ sess[topo.parent[n]][s].peer = n
              /\ sess[topo.parent[n]][s].fwd = "live"
              /\ sess[topo.parent[n]][s].cache = <<>>
              /\ sess[topo.parent[n]][s].sink = <<>>

\* C5: with all peers connected and nothing left to do, the single upload
\* has reached every node of the ring.
C5_RingPropagates ==
    RingSettled => \A n \in Nodes : DOMAIN kv[n].event = DOMAIN kv["A"].event

(***************************************************************************)
(* Properties of a parent and its pure child.                              *)
(***************************************************************************)
\* the parent A has no request under way and accepts no more, its bus is
\* idle, and the child B is connected, waits in Receive with nothing on the
\* wire, and its session has sent all it had and waits for live events
ChildSettled ==
    /\ reqs = {} /\ left.req["A"] = 0
    /\ disp["A"].cur = NoEvent
    /\ cli["B"].conn /\ cli["B"].pc = "loop" /\ wire["B"] = <<>>
    /\ \E s \in Slots :
         /\ sess["A"][s].peer = "B" /\ sess["A"][s].up
         /\ sess["A"][s].fwd = "live"
         /\ sess["A"][s].cache = <<>> /\ sess["A"][s].sink = <<>>

\* C2: once the parent is quiescent and the child is connected with nothing
\* left to receive, the child holds every event record of the parent,
\* whatever connection losses and reconnects came before.
C2_ChildComplete ==
    ChildSettled => \A k \in DOMAIN kv["A"].event :
                        k \in DOMAIN kv["B"].event /\ kv["B"].event[k] = kv["A"].event[k]

\* C3: a fresh child that connects to a quiescent parent with cursor event:0
\* ends with the parent's event records, with the parent's files except
\* those whose fetch failed, and with the parent's metadata of the files it
\* holds.
C3_CatchUp ==
    ChildSettled =>
        /\ kv["B"].event = kv["A"].event
        /\ DOMAIN kv["B"].file \subseteq DOMAIN kv["A"].file
        /\ DOMAIN kv["B"].meta \subseteq DOMAIN kv["A"].meta
        /\ \A f \in DOMAIN kv["B"].file : kv["B"].file[f] = kv["A"].file[f]
        /\ \A f \in DOMAIN kv["B"].meta : kv["B"].meta[f] = kv["A"].meta[f]

(***************************************************************************)
(* Properties of a replication session.                                    *)
(***************************************************************************)
\* C1: what a connected session of the parent A has to send, the records of
\* its iterator and the events published since its Subscribe, is eventually
\* sent: the session does not stay in debt for ever.
C1_SessionDelivers ==
    \A s \in Slots : (sess["A"][s].owed # {}) ~> (sess["A"][s].owed = {})

(***************************************************************************)
(* Properties of the event keys and of publication.                        *)
(***************************************************************************)
\* C11: two mutations committed on one node have distinct event keys, also
\* when the clock gave both the same reading.
C11_DistinctKeys ==
    \A n \in Nodes :
        \A i, j \in 1..Len(LocalCommits(n)) :
            i # j => LocalCommits(n)[i].key # LocalCommits(n)[j].key

\* the events the dispatcher of node n has taken from the Events channel
Published(n) == SelectSeq(commits[n], LAMBDA c : c.src = "pub")

\* C12: when no mutating request of a node is under way, every event its
\* handlers have committed (upload, store, delete) has been pushed onto the
\* node's bus.
C12_CommittedIsPublished ==
    \A n \in Nodes :
        (\A r \in reqs : r.node # n) => Len(Published(n)) = Len(LocalCommits(n))

\* C13: when the replication client of a node is back at Receive, every
\* event it has applied has been pushed onto the node's bus.
C13_AppliedIsPublished ==
    \A n \in Nodes :
        cli[n].pc = "loop" =>
            \A i \in 1..Len(commits[n]) :
                commits[n][i].src = "repl" =>
                    \E j \in 1..Len(Published(n)) : Published(n)[j].key = commits[n][i].key

(***************************************************************************)
(* The HTTP interface of one parent node.                                  *)
(***************************************************************************)
\* the files a client created by upload, and by store, and has not deleted
Uploaded == {f \in DOMAIN known : known[f].src = None /\ ~known[f].gone}
Stored == {f \in DOMAIN known : known[f].src # None /\ ~known[f].gone}

Gone == {f \in DOMAIN known : known[f].gone}

\* C16: once a DELETE of a URL has been answered 204, every GET of that URL
\* answers 404, whatever is uploaded or stored afterwards.
C16_DeletedIsNotFound ==
    \A f \in Gone : DeliverFile(kv["A"], f).status = 404

\* a DELETE was answered 204 and its handler has returned
C16_Reached == Gone # {} /\ reqs = {} /\ resp.kind = "delete" /\ resp.status = 204

C18_AuthRequired ==
    [][/\ \A r \in reqs' : r.auth = basicAuthEncode(Username, Password)
       /\ (resp' # resp /\ resp'.status = 401) =>
              UNCHANGED <<kv, reqs, known, nextName, now, disp, sess, wire, commits>>]_vars

\* a request was answered 401 by a node that holds a file
C18_Reached == resp.status = 401 /\ Uploaded \cup Stored # {}
(***************************************************************************)
(* Order of commit and publication; mode gating.                           *)
(***************************************************************************)
\* the events node n is about to send to its dispatcher, the one its
\* dispatcher is fanning out, and those in its sessions' channels
InFlight(n) ==
    UNION {{r.events[i] : i \in 1..Len(r.events)} : r \in {q \in reqs : q.node = n /\ q.phase = "publish"}}
    \cup (IF disp[n].cur = NoEvent THEN {} ELSE {disp[n].cur})
    \cup UNION {{sess[n][s].sink[i] : i \in 1..Len(sess[n][s].sink)} : s \in Slots}

\* C14: a step that answers 500 for a failed batch write leaves every store,
\* the dispatchers and the sessions as they were and ends the request; every
\* event a handler is about to publish, the dispatcher holds or a session
\* was handed has a record under its id in the node's store.
C14_PublishAfterCommit ==
    [][/\ (resp' # resp /\ resp'.status = 500) =>
              /\ UNCHANGED <<kv, known, disp, sess, wire>>
              /\ \A r \in reqs' : r.id # resp'.id
       /\ \A n \in Nodes : \A e \in InFlight(n)' : Has(kv'[n], e.id)]_vars

\* a write has failed while the dispatcher was handing an event to a session
C14_Reached ==
    /\ resp.status = 500
    /\ kv["A"].latest # NoKey
    /\ \E s \in Slots : sess["A"][s].sink # <<>>

\* C20: the pure child B has no mutating request in progress, answers every
\* mutating request without changing anything (a DELETE with 404), and every
\* event record of its store was written by its replication client under an
\* id its parent holds.
C20_ChildReadOnly ==
    [][/\ \A r \in reqs' : r.node # "B"
       /\ (resp' # resp /\ resp'.node = "B") =>
              /\ UNCHANGED <<kv, reqs, known, disp, sess, wire, commits, now, nextName>>
              /\ resp'.status \in {400, 404}
              /\ resp'.kind = "delete" => resp'.status = 404
       /\ \A i \in 1..Len(commits'["B"]) : commits'["B"][i].src \in {"repl", "dup"}
       /\ DOMAIN kv'["B"].event \subseteq DOMAIN kv'["A"].event]_vars

\* the child has answered a DELETE of a file it replicated from its parent,
\* and the parent has served a delete of it
C20_Reached ==
    /\ resp.node = "B" /\ resp.kind = "delete" /\ resp.status = 404
    /\ DOMAIN kv["B"].file # {}
    /\ Gone # {}
(***************************************************************************)
(* The retry loop of the replication client.                               *)
(***************************************************************************)
\* how many sessions in a row up to the i-th failed in under five seconds
RECURSIVE Streak(_, _)
Streak(h, i) ==
    IF i = 0 \/ h[i].d >= 5 THEN 0 ELSE 1 + Streak(h, i - 1)

\* C19: the counter stays in 0..5 and no sleep is longer than 32 seconds; the
\* k-th failure in a row of a session shorter than five seconds is followed
\* by a sleep of 2, 4, 8, 16, 32, 32, ... seconds, where a session of five
\* seconds or more starts the row afresh.
C19_BackoffSequence ==
    \A c \in Nodes :
        LET h == cli[c].naps IN
        /\ cli[c].count \in 0..5
        /\ \A i \in 1..Len(h) :
              /\ h[i].sleep <= 32
              /\ h[i].d < 5 =>
                    h[i].sleep = CASE Streak(h, i) = 1 -> 2
                                   [] Streak(h, i) = 2 -> 4
                                   [] Streak(h, i) = 3 -> 8
                                   [] Streak(h, i) = 4 -> 16
                                   [] OTHER -> 32

\* six short sessions in a row, a long one, and a short one again
C19_Reached ==
    LET h == cli["B"].naps IN
    /\ Len(h) = 8
    /\ \A i \in 1..6 : h[i].d < 5
    /\ h[7].d >= 5
    /\ h[8].d < 5 /\ h[8].sleep = 2
(***************************************************************************)
(* The sessions a node serves.                                             *)
(***************************************************************************)
\* the first message of session x carries the instance's credentials,
\* decodes, and its event value begins with "event:"
GoodHello(x) ==
    /\ x.auth = basicAuthEncode(Username, Password)
    /\ x.start.ok
    /\ x.start.prefix = "event:"

\* C21: a session is subscribed, or has its goroutines running, or has put
\* anything on the wire, only if its first message was good; a handler whose
\* checks fail returns and leaves the dispatcher, the wires and the other
\* sessions as they were.
C21_HandshakeFirst ==
    [][\A n \in Nodes, s \in Slots :
         /\ (s \in disp'[n].subs \/ sess'[n][s].main \notin {"free", "hello"})
               => GoodHello(sess'[n][s])
         /\ (sess[n][s].main = "hello" /\ ~GoodHello(sess[n][s])
               /\ sess'[n][s].main # "hello")
               => /\ sess' = [sess EXCEPT ![n][s] = FreeSession]
                  /\ UNCHANGED <<disp, wire, kv>>]_vars

\* a handler is at its checks with the right credentials and a first
\* message that names a file key, while the store holds events to send
C21_Reached ==
    \E s \in Slots :
        /\ sess["A"][s].main = "hello"
        /\ sess["A"][s].auth = basicAuthEncode(Username, Password)
        /\ sess["A"][s].start.prefix = "file:"
        /\ DOMAIN kv["A"].event # {}

\* C22: a client that holds a new event of a type other than UPLOAD and
\* DELETE writes nothing for it: its next step leaves its store as it is,
\* ends the session and counts a failure; no store of a replicating node
\* ever holds a record of such an event
C22_UnknownTypeEndsSession ==
    [][\A c \in Nodes :
         /\ (cli[c].pc = "apply" /\ cli[c].ev.type \notin {"UPLOAD", "DELETE"}
              /\ cli'[c] # cli[c])
               => /\ kv'[c] = kv[c]
                  /\ ~cli'[c].conn /\ cli'[c].pc = "loop"
                  /\ cli'[c].count = Backoff(cli[c].count, ShortSession)
                  /\ \A s \in Slots : sess'[topo.parent[c]][s].peer = c
                                         => ~sess'[topo.parent[c]][s].up
         /\ topo.parent[c] # None
               => \A k \in DOMAIN kv'[c].event :
                      Unmarshal(kv'[c].event[k]).type \in {"UPLOAD", "DELETE"}]_vars

\* the child has replicated the upload and then ended a session over an
\* event of an unknown type, of which it holds nothing
C22_Reached ==
    /\ \E i \in DOMAIN commits["B"] : commits["B"][i].src = "repl"
    /\ \E i \in DOMAIN commits["B"] :
         /\ commits["B"][i].src = "err"
         /\ ~Has(kv["B"], commits["B"][i].key)
         /\ kv["B"].latest # commits["B"][i].key
    /\ ~cli["B"].conn

\* C23: the step of a client that holds a new UPLOAD event stores the event
\* record and sets latest_event whether the fetch succeeds or not; it either
\* stores both the file and its metadata as the parent served them or, when
\* the fetch failed, leaves the file: and meta: keys as they are; when the
\* parent does not answer 200 it is the latter.  In both cases the client
\* stays connected at its receive loop with its failure counter and its
\* sleeps unchanged, and the parent's session and the wire are untouched
C23_FetchFailureTolerated ==
    [][\A c \in Nodes :
         (cli[c].pc = "apply" /\ cli[c].ev.type = "UPLOAD" /\ cli'[c] # cli[c])
           => LET e == cli[c].ev
                  got == DeliverFile(kv[topo.parent[c]], e.name)
              IN /\ kv'[c].event = With(kv[c].event, e.id, cli[c].msg)
                 /\ kv'[c].latest = e.id
                 /\ \/ /\ kv'[c].file = kv[c].file
                       /\ kv'[c].meta = kv[c].meta
                    \/ /\ got.status = 200
                       /\ kv'[c].file = With(kv[c].file, e.name, got.body)
                       /\ kv'[c].meta = With(kv[c].meta, e.name, MetaData(got.ct, None))
                 /\ got.status # 200 => kv'[c].file = kv[c].file
                 /\ cli'[c] = [cli[c] EXCEPT !.pc = "loop", !.msg = NoMsg, !.ev = NoEvent]
                 /\ cli'[c].conn
                 /\ UNCHANGED <<sess, wire>>]_vars

\* the child holds the record of an upload as its latest event but neither
\* the file nor its metadata, while the parent serves the file, and is
\* connected at its receive loop without a failure counted
C23_Reached ==
    \E k \in DOMAIN kv["B"].event :
        LET e == Unmarshal(kv["B"].event[k]) IN
        /\ e.type = "UPLOAD"
        /\ kv["B"].latest = k
        /\ e.name \notin DOMAIN kv["B"].file
        /\ e.name \notin DOMAIN kv["B"].meta
        /\ DeliverFile(kv["A"], e.name).status = 200
        /\ DeliverFile(kv["B"], e.name).status = 404
        /\ cli["B"].conn /\ cli["B"].pc = "loop" /\ cli["B"].count = 0

\* the batch of request r is in store db: every part's file and metadata,
\* and under every event's key the record of that event
Committed(db, r) ==
    \A i \in 1..Len(r.events) :
        /\ r.files[i].name \in DOMAIN db.file
        /\ db.file[r.files[i].name] = r.files[i].content
        /\ r.files[i].name \in DOMAIN db.meta
        /\ r.events[i].name = r.files[i].name
        /\ Has(db, r.events[i].id)
        /\ Unmarshal(db.event[r.events[i].id]) = r.events[i]

\* C24: when an upload handler is past DB.Write, either nothing of its
\* batch is stored and the request is over, or every part and every
\* part's event is stored and the events wait to be published in part
\* order; each send on the bus takes the first waiting event, and the
\* request is over only when none is left
C24_BatchInOrder ==
    [][\A r \in reqs :
         r.kind = "upload" =>
           LET n == r.node
               after == {q \in reqs' : q.id = r.id}
           IN /\ (r.phase = "parts" /\ \A q \in after : q.phase # "parts")
                    => \/ kv'[n] = kv[n] /\ after = {}
                       \/ /\ Committed(kv'[n], r)
                          /\ after = {[r EXCEPT !.phase = "publish"]}
              /\ (r.phase = "publish" /\ r \notin reqs')
                    => /\ commits'[n] =
                            Append(commits[n], [key |-> r.events[1].id, src |-> "pub"])
                       /\ after = IF Len(r.events) = 1 THEN {}
                                  ELSE {[r EXCEPT !.events = Tail(@)]}]_vars

\* the alphabet of drawer names: the letters, the digits and . : , ; $ -
Letters ==
    {"a", "b", "c", "d", "e", "f", "g", "h", "i", "j", "k", "l", "m",
     "n", "o", "p", "q", "r", "s", "t", "u", "v", "w", "x", "y", "z",
     "A", "B", "C", "D", "E", "F", "G", "H", "I", "J", "K", "L", "M",
     "N", "O", "P", "Q", "R", "S", "T", "U", "V", "W", "X", "Y", "Z"}
Digits == {"0", "1", "2", "3", "4", "5", "6", "7", "8", "9"}
DrawerName(dr) ==
    /\ dr # <<>>
    /\ \A i \in DOMAIN dr : dr[i] \in Letters \cup Digits \cup {".", ":", ",", ";", "$", "-"}

\* C25: an upload or store request that the handler takes on names a
\* non-empty drawer of allowed characters only, and a request answered 406
\* for its drawer names a drawer that is empty or has another character,
\* and changes nothing
C25_DrawerNames ==
    [][/\ \A q \in reqs' \ reqs :
            (q.id = nextReq /\ q.kind \in {"upload", "store"}) => DrawerName(q.drawer)
       /\ (resp' # resp /\ resp'.status = 406)
            => /\ ~DrawerName(resp'.drawer)
               /\ UNCHANGED <<kv, reqs, known, disp, sess, wire, commits>>]_vars

\* C26: a session of the parent whose connection is lost is at some later
\* time unsubscribed with its handler returned, and a dispatcher that is
\* sending an event to the subscribers is at some later time back at its
\* select
C26_SessionCloses ==
    /\ \A s \in Slots :
         Quit(sess["A"][s]) ~> (sess["A"][s].main # "wait" /\ s \notin disp["A"].subs)
    /\ (disp["A"].cur # NoEvent) ~> (disp["A"].cur = NoEvent)

\* the sinks the dispatcher of node n has still to send its event to
Pending(d) == IF d.cur = NoEvent THEN {} ELSE {d.tgt} \cup d.todo

\* a publish fans out over the subscriber set of its moment: the set does
\* not change before the fan-out is over, every event put into a session's
\* channel is the dispatcher's event put into a subscribed sink that had
\* not got it, and the fan-out is over only when no sink is left
FanOut ==
    [][\A n \in Nodes :
         LET d == disp[n]
             e == disp'[n]
         IN /\ d.cur # NoEvent => e.subs = d.subs
            /\ (d.cur = NoEvent /\ e.cur # NoEvent) => Pending(e) = d.subs
            /\ (d.cur # NoEvent /\ e # d)
                 => /\ sess'[n][d.tgt].sink = Append(sess[n][d.tgt].sink, d.cur)
                    /\ Pending(e) = Pending(d) \ {d.tgt}
                    /\ d.tgt \notin d.todo
                    /\ e.cur \in {d.cur, NoEvent}
            /\ \A s \in Slots :
                 Len(sess'[n][s].sink) > Len(sess[n][s].sink)
                   => d.cur # NoEvent /\ d.tgt = s /\ s \in d.subs]_vars

\* C27: the fan-out of every publish is over the subscriber set of its
\* moment, once per sink, and every sink of that set gets the event: a sink
\* the dispatcher has still to send to is sent to at some later time
C27_FanOutExactlyOnce ==
    /\ FanOut
    /\ \A s \in Slots : (s \in Pending(disp["A"])) ~> (s \notin Pending(disp["A"]))

\* the events a session has got from the dispatcher and not sent yet, in the
\* order of their delivery: those cacheEvents holds, then those still in the
\* events channel
Stream(x) == x.cache \o [i \in 1..Len(x.sink) |-> Marshal(x.sink[i])]

\* C28: on every step of an open session: the records its iterator has
\* still to send are in ascending key order and the next message on the
\* wire is the first of them, with no live event before the last of them;
\* once it forwards live events it never returns to the iterator, each
\* message it puts on the wire is the oldest event delivered to it and not
\* sent yet, and between sends the undelivered events only grow at the end
\* by the event the dispatcher delivers
C28_SessionOrder ==
    [][\A n \in Nodes, s \in Slots :
         LET x == sess[n][s]
             y == sess'[n][s]
             put == Len(wire'[x.peer]) > Len(wire[x.peer])
         IN (x.up /\ y.up /\ x.main = "wait" /\ y.main = "wait")
              => /\ x.fwd = "new" => ~put
                 /\ x.fwd = "iter"
                      => /\ \A i, j \in DOMAIN x.iter :
                              i < j => KeyLess(Unmarshal(x.iter[i]).id, Unmarshal(x.iter[j]).id)
                         /\ put => /\ wire'[x.peer] = Append(wire[x.peer], Head(x.iter))
                                   /\ y.iter = Tail(x.iter)
                                   /\ Stream(y) = Stream(x)
                         /\ y.fwd = "live" => put /\ y.iter = <<>>
                         /\ y.fwd \in {"iter", "live"}
                 /\ x.fwd = "live"
                      => /\ y.fwd = "live"
                         /\ put => /\ wire'[x.peer] = Append(wire[x.peer], Head(Stream(x)))
                                   /\ Stream(y) = Tail(Stream(x))
                 /\ ~put => \/ Stream(y) = Stream(x)
                            \/ /\ disp[n].cur # NoEvent
                               /\ Stream(y) = Append(Stream(x), Marshal(disp[n].cur))]_vars

\* an open session that is past its iterator holds two different live
\* events in its cache
C28_Reached ==
    \E s \in Slots :
        /\ sess["A"][s].up /\ sess["A"][s].fwd = "live"
        /\ Len(sess["A"][s].cache) = 2
        /\ sess["A"][s].cache[1] # sess["A"][s].cache[2]

\* the event keys of store db from the cursor on, the cursor included, in
\* the order of the keys
FromCursor(db, cursor) == {k \in DOMAIN db.event : KeyLeq(cursor, k)}
RECURSIVE Ascending(_, _)
Ascending(db, ks) ==
    IF ks = {} THEN <<>>
    ELSE LET k == CHOOSE x \in ks : \A y \in ks : KeyLeq(x, y)
         IN <<db.event[k]>> \o Ascending(db, ks \ {k})

\* C29: the range of a session's iterator holds the event keys from the
\* cursor on and no other key, and the iterator hands out their records in
\* the order of the keys; a session whose range is empty goes on to the
\* live events without a message sent, and every message of the historical
\* phase is the next record of the iterator
C29_HistoricalRange ==
    [][\A n \in Nodes, s \in Slots :
         LET x == sess[n][s]
             y == sess'[n][s]
             ks == FromCursor(kv[n], x.cursor)
             put == Len(wire'[x.peer]) > Len(wire[x.peer])
         IN /\ (x.fwd = "new" /\ x.up)
                 => /\ RangeKeys(kv[n], x.cursor) = {<<"event", k>> : k \in ks}
                    /\ y.fwd # "new"
                         => /\ y.iter = Ascending(kv[n], ks)
                            /\ y.fwd = IF ks = {} THEN "live" ELSE "iter"
                            /\ ~put
            /\ (x.fwd = "iter" /\ x.up /\ put)
                 => /\ wire'[x.peer] = Append(wire[x.peer], Head(x.iter))
                    /\ y.iter = Tail(x.iter)
                    /\ y.fwd = IF y.iter = <<>> THEN "live" ELSE "iter"]_vars

\* a session with the cursor event:9 is about to take its iterator while
\* the store holds the event keys 10 and 11, a file, its metadata and
\* latest_event: in the order of the keys the cursor is past every event
C29_Reached ==
    \E s \in Slots :
        /\ sess["A"][s].fwd = "new" /\ sess["A"][s].up
        /\ sess["A"][s].cursor = ClockStart - 1
        /\ Cardinality(DOMAIN kv["A"].event) = 2
        /\ DOMAIN kv["A"].file # {} /\ DOMAIN kv["A"].meta # {}
        /\ FromCursor(kv["A"], sess["A"][s].cursor) = {}

\* C30: the events cacheEvents holds stay below a bound that does not grow
\* with the run: however many events the run publishes, the cache of a
\* session never holds all of them
C30_CacheBounded ==
    \A n \in Nodes, s \in Slots : Len(sess[n][s].cache) < ReplQuota

\* C31: of two event keys in a node's store the one of the earlier clock
\* reading sorts first, whatever the numbers of their digits, and the range
\* of an iterator whose cursor is the earlier key holds the later key
C31_KeysSortByTime ==
    \A n \in Nodes :
        \A t1, t2 \in DOMAIN kv[n].event :
            t1 < t2 => /\ KeyLess(t1, t2)
                       /\ <<"event", t2>> \in RangeKeys(kv[n], t1)

\* C32: after every failed session the client sleeps before it connects
\* again, also when the session lasted five seconds or more: no failure is
\* followed by a sleep of no time
C32_AlwaysSleeps ==
    \A c \in Nodes :
        \A i \in 1..Len(cli[c].naps) : cli[c].naps[i].sleep > 0

\* the dispatcher of the parent is sending its event on the channel of
\* session s
SendingTo(s) == disp["A"].cur # NoEvent /\ disp["A"].tgt = s

\* C33: a send of the dispatcher on the channel of a session whose quit is
\* not signalled completes at some later time, unless quit is signalled
\* first, also when the peer never reads its connection again
C33_SinkSendCompletes ==
    \A s \in Slots :
        (SendingTo(s) /\ sess["A"][s].up) ~> (~SendingTo(s) \/ ~sess["A"][s].up)

\* the dispatcher sends to an open session whose channel is full, whose
\* cache holds an event and whose peer's connection takes no more
C33_Reached ==
    \E s \in Slots :
        LET x == sess["A"][s] IN
        /\ SendingTo(s) /\ x.up
        /\ Len(x.sink) = SinkCap
        /\ x.cache # <<>>
        /\ Len(wire[x.peer]) = WireCap

\* C34: cacheEvents never sends on rawEvents after the handler has closed
\* it: no session's caching goroutine panics on a send on a closed channel
C34_NoSendOnClosed ==
    \A n \in Nodes : \A s \in Slots : sess[n][s].main # Panicked

\* C35: the dispatcher never sends on a closed channel: every sink it has
\* still to send its event to is a subscribed one, and the handler of every
\* subscribed sink is at <-quit, before its deferred close(events), also
\* while the dispatcher is in the middle of a fan-out
C35_NoSendOnClosedSink ==
    \A n \in Nodes :
        /\ Pending(disp[n]) \subseteq disp[n].subs
        /\ \A s \in disp[n].subs : sess[n][s].main = "wait"

\* the dispatcher has still to send its event to a session whose quit is
\* signalled: the handler's Unsubscribe has to wait
C35_Reached ==
    \E s \in Pending(disp["A"]) : Quit(sess["A"][s])

\* C36: the client drops a message as a duplicate only when the record its
\* store holds under the message's id is that very message, the same
\* mutation: no mutation the node has not applied is discarded
C36_DedupSameMutation ==
    [][\A c \in Nodes :
         (/\ cli[c].conn /\ cli[c].pc = "loop" /\ wire[c] # <<>>
          /\ wire'[c] = Tail(wire[c]) /\ cli'[c] = cli[c])
            => LET m == Head(wire[c]) IN
               /\ Has(kv[c], Unmarshal(m).id)
               /\ kv[c].event[Unmarshal(m).id] = m]_vars

\* C37: on a pure child latest_event is the greatest event key of its
\* store: no stored event has a key above the cursor
C37_LatestIsGreatest ==
    \A c \in Nodes :
        (ChildMode(c) /\ kv[c].event # <<>>)
            => /\ kv[c].latest \in DOMAIN kv[c].event
               /\ \A k \in DOMAIN kv[c].event : k <= kv[c].latest

\* C38: at every handshake of a forced-parent node each event of its parent
\* that the node does not hold has a key at or above the cursor the node
\* sends, so that the session's iterator holds it
C38_NoParentEventSkipped ==
    [][\A c \in Nodes :
         (/\ topo.parent[c] # None /\ topo.force[c]
          /\ ~cli[c].conn /\ cli'[c].conn)
            => \A k \in DOMAIN kv[topo.parent[c]].event \ DOMAIN kv[c].event :
                   /\ k >= StartCursor(kv[c])
                   /\ <<"event", k>> \in RangeKeys(kv[topo.parent[c]], StartCursor(kv[c]))]_vars

\* the pair of drawer and filename the last answer was about
Addressed == resp.names

\* C39: no two different pairs of drawer and filename have the same file:
\* or meta: key: the pair the last request named shares its keys with no
\* other pair a file was stored under, a GET answers 200 only for a pair a
\* file was stored under and not deleted since, and the file of every such
\* pair is still in the store
C39_KeysUnambiguous ==
    /\ \A p \in DOMAIN known, q \in Addressed :
          p # q => /\ FileKey(p[1], p[2]) # FileKey(q[1], q[2])
                   /\ MetaKey(p[1], p[2]) # MetaKey(q[1], q[2])
    /\ (resp.kind = "get" /\ resp.status = 200)
          => \A q \in Addressed : q \in DOMAIN known /\ ~known[q].gone
    /\ \A p \in DOMAIN known :
          ~known[p].gone => Path(p[1], p[2]) \in DOMAIN kv["A"].file
====
